---------------------------- MODULE Spec2Model ----------------------------
(***************************************************************************)
(* A model of lmux: the shared Logger (groups, path index, LineId counter, *)
(* history, time cursor, framebuffer), the producer API, the render loop's *)
(* frame and input handlers, and main() around the loop.                   *)
(*                                                                         *)
(* Every closure passed to modify_logger runs with the Logger mutex held,  *)
(* so each one is a single atomic action; an API function that calls      *)
(* modify_logger twice (log, set_header) is two actions, and other callers *)
(* may run between them.                                                   *)
(*                                                                         *)
(* Conventions: Option<T> is a sequence of length 0 (None) or 1 (Some);    *)
(* GroupId, LineId and all indices are 0-based as in the source, so the    *)
(* element with index i of a Vec is element i + 1 of the sequence.         *)
(***************************************************************************)
EXTENDS Integers, Sequences, FiniteSets, TLC

VARIABLES
    logger,     \* the process-wide Logger (lib.rs:86-95)
    producers,  \* per producer: where it is inside a two-step API call
    prev_size,  \* run()'s prev_size, the terminal size of the previous frame
    stdout,     \* the terminal: the content last printed on each row
    frame,      \* the last frame: the groups it showed, the body rows it gave
                \* each of them, and the rows it printed
    last,       \* the last call that completed and what it returned
    pushed,     \* history variable: the LineIds given out by the successful
                \* push_line calls, in the order the calls held the lock
    poisoned,   \* whether the Logger mutex is poisoned: a thread panicked
                \* while it held the lock
    main,       \* the thread inside main(): where it is, what it did to the
                \* terminal, how run() ended and what main() returned
    lock        \* the Logger mutex when its holds are modelled step by step:
                \* the thread that holds it, and where each thread is in
                \* the call it is making

vars == <<logger, producers, prev_size, stdout, frame, last, pushed, poisoned, main,
          lock>>

-----------------------------------------------------------------------------
(* Option<T> *)

None == <<>>
Some(x) == <<x>>
IsSome(o) == o # <<>>
IsNone(o) == o = <<>>
Unwrap(o) == o[1]
UnwrapOr(o, d) == IF o = <<>> THEN d ELSE o[1]

Min(a, b) == IF a < b THEN a ELSE b
Max(a, b) == IF a > b THEN a ELSE b
\* usize::saturating_sub
SatSub(a, b) == IF a > b THEN a - b ELSE 0

\* Vec indexing with the source's 0-based index
At(s, i) == s[i + 1]
Last(s) == s[Len(s)]
\* slice.last() / slice.first() as Option
LastOpt(s) == IF s = <<>> THEN None ELSE Some(s[Len(s)])
FirstOpt(s) == IF s = <<>> THEN None ELSE Some(s[1])

-----------------------------------------------------------------------------
(* Bounds of the model *)

\* Spec: total number of lines the producers push
MaxLines == 3
\* SpecNav: number of groups, and total number of lines pushed
NavMaxGroups == 5
NavMaxLines == 5
\* SpecPolicy: total number of lines pushed
PolMaxLines == 3
\* SpecFrame: total number of lines pushed
FrameMaxLines == 3
\* SpecScenario: total number of lines pushed, the scenario's six included
ScenMaxLines == 7

-----------------------------------------------------------------------------
(* group.rs: Status, Log, Line, Group *)

Success == "Success"
Error == "Error"

\* Status::ok(), Status::error(), .finished()
StatusOk == [progress |-> None, finished |-> FALSE, tag |-> Success]
StatusError == [progress |-> None, finished |-> FALSE, tag |-> Error]
Finished(status) == [status EXCEPT !.finished = TRUE]
\* #[derive(Default)] for Status: None, false, StatusTag::Success
StatusDefault == [progress |-> None, finished |-> FALSE, tag |-> Success]

MkLog(content, status) == [content |-> content, status |-> status]

\* AutoCollapse policies (the closures of group.rs:128-152), by name
CollapseOnSuccess == "collapse_on_success"
ExpandOnError == "expand_on_error"
ExpandSelected == "expand_selected"
\* impl Default for AutoCollapse
\* A default that would be collapse_on_success
AutoCollapseDefaultCollapseOnSuccess == CollapseOnSuccess
\* impl Default for AutoCollapse
AutoCollapseDefault == ExpandOnError

\* Group::new(id) with State::new(id)
GroupNew(id) ==
    [id |-> id, header |-> "", footer |-> "", lines |-> <<>>,
     collapsed |-> None, selected |-> FALSE, scroll |-> None,
     auto_collapse |-> AutoCollapseDefault]

-----------------------------------------------------------------------------
(* hash_tree.rs: HashTree<K, V> = { value: Option<V>, children: map }      *)

EmptyMap == [k \in {} |-> k]
HashTreeNew == [value |-> None, children |-> EmptyMap]

\* A lookup that settles for the deepest node it finds on the way
RECURSIVE HashTreeGetPrefix(_, _)
HashTreeGetPrefix(tree, path) ==
    IF path = <<>> THEN tree.value
    ELSE IF Head(path) \in DOMAIN tree.children
         THEN HashTreeGetPrefix(tree.children[Head(path)], Tail(path))
         ELSE tree.value

\* HashTree::get: the value of the node at exactly this path
RECURSIVE HashTreeGet(_, _)
HashTreeGet(tree, path) ==
    IF path = <<>> THEN tree.value
    ELSE IF Head(path) \in DOMAIN tree.children
         THEN HashTreeGet(tree.children[Head(path)], Tail(path))
         ELSE None

\* get_or_insert_with(path, f): the tree afterwards, where v is what f()
\* returns; f is called only when the node at path holds no value.
RECURSIVE HashTreeInsert(_, _, _)
HashTreeInsert(tree, path, v) ==
    IF path = <<>>
    THEN [tree EXCEPT !.value = IF IsNone(tree.value) THEN Some(v) ELSE @]
    ELSE LET key == Head(path)
             child == IF key \in DOMAIN tree.children
                      THEN tree.children[key] ELSE HashTreeNew
             new_child == HashTreeInsert(child, Tail(path), v)
         IN [tree EXCEPT !.children =
                [k \in DOMAIN tree.children \cup {key} |->
                    IF k = key THEN new_child ELSE tree.children[k]]]

\* The paths that hold a value, for stating properties of the index
RECURSIVE HashTreePaths(_)
HashTreePaths(tree) ==
    (IF IsSome(tree.value) THEN {<<>>} ELSE {})
    \cup UNION {{<<k>> \o p : p \in HashTreePaths(tree.children[k])} :
                k \in DOMAIN tree.children}

-----------------------------------------------------------------------------
(* lib.rs: Logger *)

\* terminal::Size::default()
SizeDefault == [cols |-> 0, rows |-> 0]

FramebufferDefault ==
    [lines |-> <<>>, line_to_group |-> EmptyMap, group_to_lines |-> EmptyMap,
     group_to_group_lines |-> EmptyMap]

LoggerDefault ==
    [groups |-> [data |-> <<>>, next_line |-> None],
     path_to_group_id |-> HashTreeNew,
     next_line_id |-> 0,
     frame_buffer |-> FramebufferDefault,
     debug_lines |-> <<>>,
     history |-> <<>>]

\* Results: Ok(v) and Err(message)
Ok(v) == [ok |-> TRUE, val |-> v]
Err(e) == [ok |-> FALSE, val |-> e]

\* "::" joins the segments of a path into the header
RECURSIVE Join(_)
Join(path) ==
    IF path = <<>> THEN ""
    ELSE IF Len(path) = 1 THEN path[1]
    ELSE path[1] \o "::" \o Join(Tail(path))

LineIdIncNoInc(id) == id
\* LineId::inc
LineIdInc(id) == id + 1

\* Logger::next_line_id: <<the Logger afterwards, the LineId returned>>
NextLineId(l) ==
    <<[l EXCEPT !.next_line_id = LineIdInc(l.next_line_id)], l.next_line_id>>

\* create_group with the closure's work done before the lookup (eager
\* evaluation): a group is pushed on every call
CreateGroupEager(l, selector) ==
    LET group_id == Len(l.groups.data)
        group == [GroupNew(group_id) EXCEPT !.header = Join(selector)]
        tree == HashTreeInsert(l.path_to_group_id, selector, group_id)
    IN <<[l EXCEPT !.groups.data = Append(@, group),
                   !.path_to_group_id = tree],
         Unwrap(HashTreeGet(tree, selector))>>
\* Logger::create_group: <<the Logger afterwards, the GroupId returned>>.
\* get_or_insert_with calls the closure, which pushes the group, only when
\* the node at the path holds no value.
CreateGroup(l, selector) ==
    LET called == IsNone(HashTreeGet(l.path_to_group_id, selector))
        group_id == Len(l.groups.data)
        group == [GroupNew(group_id) EXCEPT !.header = Join(selector)]
        tree == HashTreeInsert(l.path_to_group_id, selector, group_id)
    IN <<[l EXCEPT !.groups.data = IF called THEN Append(@, group) ELSE @,
                   !.path_to_group_id = tree],
         Unwrap(HashTreeGet(tree, selector))>>

\* A selector is [id |-> n] (impl GroupSelector for group::Id) or
\* [path |-> p] (impl GroupSelector for &[String])
ById(id) == [id |-> id]
ByPath(path) == [path |-> path]
IsIdSelector(sel) == "id" \in DOMAIN sel

\* A group_id whose path lookup settles for a prefix of the path
SelectorGroupIdPrefix(l, sel) ==
    IF IsIdSelector(sel)
    THEN IF sel.id >= Len(l.groups.data)
         THEN Err("Group index out of bounds") ELSE Ok(sel.id)
    ELSE LET found == HashTreeGetPrefix(l.path_to_group_id, sel.path)
         IN IF IsSome(found) THEN Ok(Unwrap(found)) ELSE Err("Group not found")

\* GroupSelector::group_id: Ok(id) or Err
SelectorGroupId(l, sel) ==
    IF IsIdSelector(sel)
    THEN IF sel.id >= Len(l.groups.data)
         THEN Err("Group index out of bounds") ELSE Ok(sel.id)
    ELSE LET found == HashTreeGet(l.path_to_group_id, sel.path)
         IN IF IsSome(found) THEN Ok(Unwrap(found)) ELSE Err("Group not found")

\* SystemTime::now(), in milliseconds. The wall clock is not a variable of
\* the model: it is read as one second per line pushed so far, so the times
\* of the lines are distinct and increase with their LineIds.
ClockMs(l) == l.next_line_id * 1000

\* A push_line that brings the view back to the live end
PushLineGoLive(l, sel, log) ==
    LET r == SelectorGroupId(l, sel)
    IN IF ~r.ok THEN <<l, r>>
       ELSE LET n == NextLineId(l)
                line == [log |-> log, timestamp |-> n[2], time |-> ClockMs(l)]
            IN <<[n[1] EXCEPT
                    !.history = Append(@, <<r.val, log.status.tag>>),
                    !.groups.data[r.val + 1].lines = Append(@, line),
                    !.groups.next_line = None],
                 Ok("unit")>>

\* A push_line that records the line in the history before it resolves
\* the selector
PushLineHistoryFirst(l, sel, log) ==
    LET r == SelectorGroupId(l, sel)
    IN IF ~r.ok THEN <<[l EXCEPT !.history = Append(@, <<0, log.status.tag>>)], r>>
       ELSE LET n == NextLineId(l)
                line == [log |-> log, timestamp |-> n[2], time |-> ClockMs(l)]
            IN <<[n[1] EXCEPT
                    !.history = Append(@, <<r.val, log.status.tag>>),
                    !.groups.data[r.val + 1].lines = Append(@, line)],
                 Ok("unit")>>

\* Logger::push_line: <<the Logger afterwards, the Result>>
PushLine(l, sel, log) ==
    LET r == SelectorGroupId(l, sel)
    IN IF ~r.ok THEN <<l, r>>
       ELSE LET n == NextLineId(l)
                line == [log |-> log, timestamp |-> n[2], time |-> ClockMs(l)]
            IN <<[n[1] EXCEPT
                    !.history = Append(@, <<r.val, log.status.tag>>),
                    !.groups.data[r.val + 1].lines = Append(@, line)],
                 Ok("unit")>>

\* Logger::get_last_line: Result<Option<Log>>
GetLastLine(l, sel) ==
    LET r == SelectorGroupId(l, sel)
    IN IF ~r.ok THEN r
       ELSE LET lines == At(l.groups.data, r.val).lines
            IN Ok(IF lines = <<>> THEN None ELSE Some(Last(lines).log))

\* A view that ignores the time cursor
ViewLinesAll(lines, next_line) == lines

\* LineRange<&State>::view_lines: the prefix of the lines before the first
\* one whose timestamp is >= the time cursor; all of them when live.
ViewLines(lines, next_line) ==
    IF IsSome(next_line)
    THEN LET found == {i \in 1..Len(lines) :
                          lines[i].timestamp >= Unwrap(next_line)}
             end == IF found = {} THEN Len(lines)
                    ELSE (CHOOSE i \in found : \A j \in found : i <= j) - 1
         IN SubSeq(lines, 1, end)
    ELSE lines

\* The visible lines of the group with GroupId g
GroupViewLines(l, g) == ViewLines(At(l.groups.data, g).lines, l.groups.next_line)

\* Groups::nonempty / nonempty_mut: the GroupIds, in order, of the groups
\* with at least one visible line
RECURSIVE NonEmptyFrom(_, _)
NonEmptyFrom(l, g) ==
    IF g >= Len(l.groups.data) THEN <<>>
    ELSE (IF GroupViewLines(l, g) # <<>> THEN <<g>> ELSE <<>>)
         \o NonEmptyFrom(l, g + 1)
NonEmpty(l) == NonEmptyFrom(l, 0)

Reverse(s) == [i \in 1..Len(s) |-> s[Len(s) + 1 - i]]

\* The loop of shift_selection: swap(&mut prev_selected, &mut group.selected)
\* over the groups in `order`; <<the groups afterwards, prev_selected>>
RECURSIVE SwapLoop(_, _, _, _)
SwapLoop(data, order, k, prev_selected) ==
    IF k > Len(order) THEN <<data, prev_selected>>
    ELSE SwapLoop([data EXCEPT ![order[k] + 1].selected = prev_selected],
                  order, k + 1, data[order[k] + 1].selected)

\* shift_selection without `if prev_selected { groups[0].selected = true }`
ShiftSelectionNoCarry(l, shift) ==
    LET groups == NonEmpty(l)
        count == Len(groups)
        border_ix == IF shift >= 0 THEN 0 ELSE SatSub(count, 1)
        any_selected == \E k \in 1..count : At(l.groups.data, groups[k]).selected
        order == IF shift < 0 THEN Reverse(groups) ELSE groups
        swapped == SwapLoop(l.groups.data, order, 1, FALSE)
    IN IF groups = <<>> THEN l
       ELSE IF ~any_selected
            THEN [l EXCEPT !.groups.data[At(groups, border_ix) + 1].selected = TRUE]
            ELSE [l EXCEPT !.groups.data = swapped[1]]

\* shift_selection over every group, with a visible line or not
ShiftSelectionAllGroups(l, shift) ==
    LET groups == [i \in 1..Len(l.groups.data) |-> i - 1]
        count == Len(groups)
        border_ix == IF shift >= 0 THEN 0 ELSE SatSub(count, 1)
        any_selected == \E k \in 1..count : At(l.groups.data, groups[k]).selected
        order == IF shift < 0 THEN Reverse(groups) ELSE groups
        swapped == SwapLoop(l.groups.data, order, 1, FALSE)
    IN IF groups = <<>> THEN l
       ELSE IF ~any_selected
            THEN [l EXCEPT !.groups.data[At(groups, border_ix) + 1].selected = TRUE]
            ELSE IF swapped[2]
                 THEN [l EXCEPT !.groups.data =
                          [swapped[1] EXCEPT ![order[1] + 1].selected = TRUE]]
                 ELSE [l EXCEPT !.groups.data = swapped[1]]

\* shift_selection that starts at the first group whatever the sign
ShiftSelectionFromFirst(l, shift) ==
    LET groups == NonEmpty(l)
        any_selected == \E k \in 1..Len(groups) : At(l.groups.data, groups[k]).selected
        order == IF shift < 0 THEN Reverse(groups) ELSE groups
        swapped == SwapLoop(l.groups.data, order, 1, FALSE)
    IN IF groups = <<>> THEN l
       ELSE IF ~any_selected
            THEN [l EXCEPT !.groups.data[At(groups, 0) + 1].selected = TRUE]
            ELSE IF swapped[2]
                 THEN [l EXCEPT !.groups.data =
                          [swapped[1] EXCEPT ![order[1] + 1].selected = TRUE]]
                 ELSE [l EXCEPT !.groups.data = swapped[1]]

\* Logger::shift_selection
ShiftSelection(l, shift) ==
    LET groups == NonEmpty(l)
        count == Len(groups)
        border_ix == IF shift >= 0 THEN 0 ELSE SatSub(count, 1)
        any_selected == \E k \in 1..count : At(l.groups.data, groups[k]).selected
        order == IF shift < 0 THEN Reverse(groups) ELSE groups
        swapped == SwapLoop(l.groups.data, order, 1, FALSE)
    IN IF groups = <<>> THEN l
       ELSE IF ~any_selected
            THEN [l EXCEPT !.groups.data[At(groups, border_ix) + 1].selected = TRUE]
            ELSE IF swapped[2]
                 THEN [l EXCEPT !.groups.data =
                          [swapped[1] EXCEPT ![order[1] + 1].selected = TRUE]]
                 ELSE [l EXCEPT !.groups.data = swapped[1]]

\* shift_history that stores the clamped cursor as it is
ShiftHistoryNoLive(l, shift) ==
    LET max == Len(l.history)
        current == UnwrapOr(l.groups.next_line, max)
        new == Min(Max(current + shift, 0), max)
    IN [l EXCEPT !.groups.next_line = Some(new)]
\* Logger::shift_history
ShiftHistory(l, shift) ==
    LET max == Len(l.history)
        current == UnwrapOr(l.groups.next_line, max)
        new == Min(Max(current + shift, 0), max)
    IN [l EXCEPT !.groups.next_line = IF new = max THEN None ELSE Some(new)]

\* Logger::scroll: <<the Logger afterwards, the Result>>
Scroll(l, sel, offset) ==
    LET r == SelectorGroupId(l, sel)
        group_id == r.val
        ggl == l.frame_buffer.group_to_group_lines
        line_range == IF group_id \in DOMAIN ggl THEN Some(ggl[group_id]) ELSE None
        group == At(l.groups.data, group_id)
        line_count == IF IsSome(line_range)
                      THEN Unwrap(line_range)[2] - Unwrap(line_range)[1] + 1 ELSE 0
        max == SatSub(Len(group.lines), line_count)
        current_scroll == UnwrapOr(group.scroll, UnwrapOr(line_range, <<0, 0>>)[1])
        new_scroll == IF offset > 0 THEN Min(current_scroll + offset, max)
                      ELSE SatSub(current_scroll, -offset)
    IN IF ~r.ok THEN <<l, r>>
       ELSE <<[l EXCEPT !.groups.data[group_id + 1].scroll =
                            IF new_scroll # max THEN Some(new_scroll) ELSE None],
              Ok("unit")>>

-----------------------------------------------------------------------------
(* group.rs: AutoCollapse and the effective collapsed state                *)

\* expand_on_error with is_some_and in the place of is_none_or
ExpandOnErrorFilterSomeAnd(group, next_line) ==
    LET last_line == LastOpt(ViewLines(group.lines, next_line))
    IN IsSome(last_line) /\
        ~(Unwrap(last_line).log.status.finished
          /\ Unwrap(last_line).log.status.tag = Error)
\* expand_on_error that does not look at `finished`
ExpandOnErrorFilterAnyError(group, next_line) ==
    LET last_line == LastOpt(ViewLines(group.lines, next_line))
    IN IsNone(last_line) \/ ~(Unwrap(last_line).log.status.tag = Error)

\* The closure of AutoCollapse::collapse_on_success. `group.lines` is the
\* field of State, all the lines of the group: the closure does not call
\* view_lines().
CollapseOnSuccessFilter(group, next_line) ==
    LET last_line == LastOpt(group.lines)
    IN IsSome(last_line) /\
        (Unwrap(last_line).log.status.finished
         /\ Unwrap(last_line).log.status.tag = Success)

\* The closure of AutoCollapse::expand_on_error
ExpandOnErrorFilter(group, next_line) ==
    LET last_line == LastOpt(ViewLines(group.lines, next_line))
    IN IsNone(last_line) \/
        ~(Unwrap(last_line).log.status.finished
          /\ Unwrap(last_line).log.status.tag = Error)

\* The closure of AutoCollapse::expand_selected
ExpandSelectedFilter(group, next_line) == ~group.selected

\* (self.auto_collapse.filter)(...)
AutoCollapseFilter(group, next_line) ==
    CASE group.auto_collapse = CollapseOnSuccess -> CollapseOnSuccessFilter(group, next_line)
      [] group.auto_collapse = ExpandOnError -> ExpandOnErrorFilter(group, next_line)
      [] group.auto_collapse = ExpandSelected -> ExpandSelectedFilter(group, next_line)

\* is_collapsed that asks the policy first
GroupIsCollapsedPolicyFirst(group, next_line) ==
    IF ~AutoCollapseFilter(group, next_line) THEN UnwrapOr(group.collapsed, FALSE)
    ELSE TRUE
\* LineRange<&Group>::is_collapsed
GroupIsCollapsed(group, next_line) ==
    IF IsSome(group.collapsed) THEN Unwrap(group.collapsed)
    ELSE AutoCollapseFilter(group, next_line)

\* is_collapsed of the group with GroupId g under the Logger's time cursor
IsCollapsed(l, g) == GroupIsCollapsed(At(l.groups.data, g), l.groups.next_line)

-----------------------------------------------------------------------------
(* widget.rs and style.rs: the text of a row                               *)
(*                                                                         *)
(* A row is a string.  Glyphs are written in ASCII (">" collapsed marker,  *)
(* "v" expanded marker, "|" side border, "L" bottom border, "!" newest     *)
(* output marker, "#" full block, "=" scrollbar block, "~" ellipsis        *)
(* character) and a crossterm style is written as a tag around the text.   *)

Styled(attrs, s) == "<" \o attrs \o ">" \o s \o "</>"

RECURSIVE Repeat(_, _)
Repeat(s, n) == IF n <= 0 THEN "" ELSE s \o Repeat(s, n - 1)

RECURSIVE JoinWith(_, _)
JoinWith(parts, sep) ==
    IF parts = <<>> THEN ""
    ELSE IF Len(parts) = 1 THEN parts[1]
    ELSE parts[1] \o sep \o JoinWith(Tail(parts), sep)

\* widget::spinner
Spinner(n, i) ==
    LET prefix == Repeat(" ", i)
        suffix == Repeat(" ", SatSub(n, i + 1))
        marker == Styled("green", "#")
    IN Styled("bold on_grey", prefix \o marker \o suffix)

\* widget::progress_bar; the progress is a percentage (f32 1.0 is 100)
ProgressBar(len, progress) ==
    LET SYMBOL == <<" ", "1", "2", "3", "4", "5", "6", "7", "#">>
        fill_full == (len * progress) \div 100
        fill_partial == (len * progress) % 100
        fill_ceil == (len * progress + 99) \div 100
        fill_full_str == Repeat("#", fill_full)
        fill_partial_str ==
            IF fill_partial # 0 /\ fill_full < len
            THEN SYMBOL[((fill_partial * (Len(SYMBOL) - 1) + 50) \div 100) + 1]
            ELSE "^@"
        suffix == Repeat(" ", SatSub(len, fill_ceil))
    IN Styled("on_grey", fill_full_str \o fill_partial_str \o suffix)

\* lib.rs index_to_group_char
IndexToGroupChar(d) ==
    LET digits == <<"1", "2", "3", "4", "5", "6", "7", "8", "9">>
        letters == <<"a", "b", "c", "d", "e", "f", "g", "h", "i", "j", "k", "l",
                     "m", "n", "o", "p", "q", "r", "s", "t", "u", "v", "w", "x",
                     "y", "z">>
    IN IF d <= 8 THEN Some(digits[d + 1])
       ELSE IF d <= 34 THEN Some(letters[d - 9 + 1])
       ELSE None

IndexToGroupCharOpt(d) == UnwrapOr(IndexToGroupChar(d), "?")

\* style::format_duration
FormatDuration(total_ms, show_ms) ==
    LET total_seconds == total_ms \div 1000
        ms == total_ms % 1000
        s == total_seconds % 60
        m == (total_seconds \div 60) % 60
        h == (total_seconds \div 3600) % 24
        d == total_seconds \div 86400
        parts == (IF d > 0 THEN <<ToString(d) \o "d">> ELSE <<>>)
              \o (IF h > 0 THEN <<ToString(h) \o "h">> ELSE <<>>)
              \o (IF m > 0 THEN <<ToString(m) \o "m">> ELSE <<>>)
              \o <<ToString(s) \o "s">>
              \o (IF show_ms /\ ms > 0 /\ d = 0
                  THEN <<ToString(ms) \o "ms">> ELSE <<>>)
    IN JoinWith(parts, " ")

\* The last visible line of a group under the cursor next_line
LastViewLine(group, next_line) == LastOpt(ViewLines(group.lines, next_line))

LastViewLineIsError(group, next_line) ==
    LET last_line == LastViewLine(group, next_line)
    IN IsSome(last_line) /\ Unwrap(last_line).log.status.tag = Error

LastViewLineIsFinished(group, next_line) ==
    LET last_line == LastViewLine(group, next_line)
    IN IsSome(last_line) /\ Unwrap(last_line).log.status.finished

\* DefaultStyle::is_newest_output
IsNewestOutput(group, next_line) ==
    LET last_line == LastViewLine(group, next_line)
    IN IsSome(last_line) /\ IsSome(next_line)
       /\ Unwrap(last_line).timestamp = Unwrap(next_line) - 1

\* DefaultStyle::header_style
HeaderStyle(group, next_line, s) ==
    IF LastViewLineIsError(group, next_line)
    THEN Styled("red bold", s) ELSE Styled("green bold", s)

\* DefaultStyle::left_padding_style
LeftPaddingStyle(group, next_line) ==
    IF IsNewestOutput(group, next_line) THEN Styled("green", "!") ELSE " "

\* DefaultStyle::border_style
BorderStyle(group, next_line, border) ==
    IF group.selected THEN Styled("white bold", border)
    ELSE IF LastViewLineIsError(group, next_line) THEN Styled("red bold", border)
    ELSE Styled("grey bold", border)

\* DefaultStyle::border_top_left
BorderTopLeft(group, next_line) ==
    LeftPaddingStyle(group, next_line)
    \o BorderStyle(group, next_line,
                   IF GroupIsCollapsed(group, next_line) THEN ">" ELSE "v")

\* DefaultStyle::border_left
BorderLeft(group, next_line) ==
    LeftPaddingStyle(group, next_line) \o BorderStyle(group, next_line, "|")

\* DefaultStyle::border_bottom_left
BorderBottomLeft(group, next_line) ==
    LeftPaddingStyle(group, next_line) \o BorderStyle(group, next_line, "L")

\* DefaultStyle::header; now is SystemTime::now() in milliseconds
StyleHeader(group, next_line, group_index, s, now) ==
    LET progress_bar_len == 10
        last_line == LastViewLine(group, next_line)
        progress == IF IsSome(last_line) THEN Unwrap(last_line).log.status.progress
                    ELSE None
        finished == LastViewLineIsFinished(group, next_line)
        progress_bar ==
            IF IsSome(progress)
            THEN HeaderStyle(group, next_line,
                             ProgressBar(progress_bar_len, Unwrap(progress)))
            ELSE IF finished
            THEN HeaderStyle(group, next_line, ProgressBar(progress_bar_len, 100))
            ELSE LET time == IF IsSome(next_line)
                             THEN Unwrap(next_line) % progress_bar_len
                             ELSE (now \div 100) % progress_bar_len
                 IN Spinner(progress_bar_len, time)
        label == UnwrapOr(IndexToGroupChar(group_index), "~")
        index == BorderStyle(group, next_line, "[" \o label \o "]")
        border == BorderTopLeft(group, next_line)
        content == HeaderStyle(group, next_line, s)
    IN border \o " " \o index \o " " \o progress_bar \o " " \o content

\* DefaultStyle::log_line
StyleLogLine(group, next_line, group_index, s) ==
    BorderLeft(group, next_line) \o " " \o s

\* A footer that measures from the last visible line
StyleFooterFromLast(group, next_line, group_index, s, now) ==
    LET lines == ViewLines(group.lines, next_line)
        history_view == IsSome(next_line)
        finished == LastViewLineIsFinished(group, next_line)
        ms == IF lines # <<>>
              THEN LET start == Last(lines).time
                       line_end == Last(lines).time
                       end == IF history_view \/ finished THEN line_end ELSE now
                   IN SatSub(end, start)
              ELSE 0
        show_ms == finished \/ history_view
        status == BorderStyle(group, next_line, FormatDuration(ms, show_ms))
        border == BorderBottomLeft(group, next_line)
    IN border \o " " \o status \o " " \o s

\* DefaultStyle::footer
StyleFooter(group, next_line, group_index, s, now) ==
    LET lines == ViewLines(group.lines, next_line)
        history_view == IsSome(next_line)
        finished == LastViewLineIsFinished(group, next_line)
        ms == IF lines # <<>>
              THEN LET start == lines[1].time
                       line_end == Last(lines).time
                       end == IF history_view \/ finished THEN line_end ELSE now
                   IN SatSub(end, start)
              ELSE 0
        show_ms == finished \/ history_view
        status == BorderStyle(group, next_line, FormatDuration(ms, show_ms))
        border == BorderBottomLeft(group, next_line)
    IN border \o " " \o status \o " " \o s

-----------------------------------------------------------------------------
(* framebuffer.rs: Framebuffer and Writer                                  *)

LineDefault == [changed |-> FALSE, content |-> ""]

MapGet(m, k) == IF k \in DOMAIN m THEN Some(m[k]) ELSE None
MapInsert(m, k, v) == (k :> v) @@ m

\* A row handed to Writer::line
Row(group, group_line, content) ==
    [group |-> group, group_line |-> group_line, content |-> content]

\* Framebuffer::set_line
SetLine(fb, line_ix, group, group_line_ix, content) ==
    LET line_to_group == MapInsert(fb.line_to_group, line_ix, group)
        group_to_lines ==
            IF IsSome(group)
            THEN LET entry == UnwrapOr(MapGet(fb.group_to_lines, Unwrap(group)),
                                       <<line_ix, line_ix>>)
                 IN MapInsert(fb.group_to_lines, Unwrap(group), <<entry[1], line_ix>>)
            ELSE fb.group_to_lines
        group_to_group_lines ==
            IF IsSome(group) /\ IsSome(group_line_ix)
            THEN LET line_range ==
                         UnwrapOr(MapGet(fb.group_to_group_lines, Unwrap(group)),
                                  <<Unwrap(group_line_ix), Unwrap(group_line_ix)>>)
                 IN MapInsert(fb.group_to_group_lines, Unwrap(group),
                              <<line_range[1], Unwrap(group_line_ix)>>)
            ELSE fb.group_to_group_lines
        \* self.lines.resize(line_ix + 1, default()) when it is shorter
        resized == [i \in 1..Max(Len(fb.lines), line_ix + 1) |->
                       IF i <= Len(fb.lines) THEN fb.lines[i] ELSE LineDefault]
        lines == [i \in DOMAIN resized |->
                     IF i = line_ix + 1 /\ resized[i].content # content
                     THEN [changed |-> TRUE, content |-> content]
                     ELSE resized[i]]
    IN [lines |-> lines, line_to_group |-> line_to_group,
        group_to_lines |-> group_to_lines,
        group_to_group_lines |-> group_to_group_lines]

\* An on_frame that keeps the maps of the frame before
FramebufferOnFrameKept(fb) == fb

\* Framebuffer::on_frame
FramebufferOnFrame(fb) ==
    [fb EXCEPT !.group_to_lines = EmptyMap, !.group_to_group_lines = EmptyMap,
               !.line_to_group = EmptyMap]

\* A clear that drops the stored rows
FramebufferClearTruncated(fb) == [fb EXCEPT !.lines = <<>>]

\* A clear that empties the rows and does not flag them
FramebufferClearUnflagged(fb) ==
    [fb EXCEPT !.lines = [i \in 1..Len(fb.lines) |->
                             [changed |-> fb.lines[i].changed, content |-> ""]]]

\* Framebuffer::clear
FramebufferClear(fb) ==
    [fb EXCEPT !.lines = [i \in 1..Len(fb.lines) |-> [changed |-> TRUE, content |-> ""]]]

\* Writer::line over a sequence of rows, from the row `line` on
RECURSIVE WriterLines(_, _, _)
WriterLines(fb, line, rows) ==
    IF rows = <<>> THEN fb
    ELSE WriterLines(SetLine(fb, line, rows[1].group, rows[1].group_line,
                             rows[1].content),
                     line + 1, Tail(rows))

-----------------------------------------------------------------------------
(* lib.rs on_frame: the rows of a frame                                    *)

\* A loop over the groups that never uses up the extra rows: every expanded
\* group gets one while any is left
RECURSIVE GroupRowsExtraKept(_, _, _, _, _, _)
GroupRowsExtraKept(l, groups, ix, lines_per_group, lines_left, now) ==
    IF ix >= Len(groups) THEN <<>>
    ELSE
    LET header_and_footer_rows == 2
        group == At(l.groups.data, At(groups, ix))
        next_line == l.groups.next_line
        group_ix == ix
        header == Row(Some(group_ix), None,
                      StyleHeader(group, next_line, group_ix, group.header, now))
        extra_line == IF lines_left = 0 THEN 0 ELSE 1
        height == lines_per_group + extra_line
        space == SatSub(height, header_and_footer_rows)
        lines == ViewLines(group.lines, next_line)
        scrolled == IsSome(group.scroll)
        start_line == IF scrolled THEN Unwrap(group.scroll)
                      ELSE SatSub(Len(lines), space)
        body == [k \in 1..space |->
                    LET line_index_rel == k - 1
                        is_last_line == line_index_rel = space - 1
                        line_ix == start_line + line_index_rel
                        content == IF scrolled /\ is_last_line THEN "..."
                                   ELSE IF line_ix < Len(lines)
                                   THEN At(lines, line_ix).log.content
                                   ELSE ""
                    IN Row(Some(group_ix), Some(line_ix),
                           StyleLogLine(group, next_line, group_ix, content))]
        footer == Row(Some(group_ix), None,
                      StyleFooter(group, next_line, group_ix, group.footer, now))
    IN IF GroupIsCollapsed(group, next_line)
       THEN <<header>>
            \o GroupRowsExtraKept(l, groups, ix + 1, lines_per_group, lines_left, now)
       ELSE <<header>> \o body \o <<footer>>
            \o GroupRowsExtraKept(l, groups, ix + 1, lines_per_group,
                         lines_left, now)

\* The loop over the non-empty groups (lib.rs:542-573): the header row, and
\* for an expanded group the body rows and the footer row.  `ix` is the
\* position in `groups`, the index on_frame calls group_ix.
RECURSIVE GroupRows(_, _, _, _, _, _)
GroupRows(l, groups, ix, lines_per_group, lines_left, now) ==
    IF ix >= Len(groups) THEN <<>>
    ELSE
    LET header_and_footer_rows == 2
        group == At(l.groups.data, At(groups, ix))
        next_line == l.groups.next_line
        group_ix == ix
        header == Row(Some(group_ix), None,
                      StyleHeader(group, next_line, group_ix, group.header, now))
        extra_line == IF lines_left = 0 THEN 0 ELSE 1
        height == lines_per_group + extra_line
        space == SatSub(height, header_and_footer_rows)
        lines == ViewLines(group.lines, next_line)
        scrolled == IsSome(group.scroll)
        start_line == IF scrolled THEN Unwrap(group.scroll)
                      ELSE SatSub(Len(lines), space)
        body == [k \in 1..space |->
                    LET line_index_rel == k - 1
                        is_last_line == line_index_rel = space - 1
                        line_ix == start_line + line_index_rel
                        content == IF scrolled /\ is_last_line THEN "..."
                                   ELSE IF line_ix < Len(lines)
                                   THEN At(lines, line_ix).log.content
                                   ELSE ""
                    IN Row(Some(group_ix), Some(line_ix),
                           StyleLogLine(group, next_line, group_ix, content))]
        footer == Row(Some(group_ix), None,
                      StyleFooter(group, next_line, group_ix, group.footer, now))
    IN IF GroupIsCollapsed(group, next_line)
       THEN <<header>>
            \o GroupRows(l, groups, ix + 1, lines_per_group, lines_left, now)
       ELSE <<header>> \o body \o <<footer>>
            \o GroupRows(l, groups, ix + 1, lines_per_group,
                         lines_left - extra_line, now)

\* The scroll bar row (lib.rs:580-592).  The code computes in f32; the
\* model computes the same quantities exactly.
ScrollBarRow(l, size) ==
    LET line_count == l.next_line_id
        len == IF line_count = 0 THEN 1
               ELSE Max((size.cols + line_count - 1) \div line_count, 1)
        visible_line_count == l.groups.next_line
        left_space_count ==
            IF IsSome(visible_line_count)
            THEN ((size.cols - len) * Unwrap(visible_line_count)) \div line_count
            ELSE size.cols - len
        left_space == Repeat(" ", left_space_count)
        bar == Styled("bold dark_green", Repeat("=", len))
    IN Row(None, None, left_space \o bar)

\* history_tile
HistoryTile(char, tag, active) ==
    IF active /\ tag = Success THEN Styled("black on_green", char)
    ELSE IF active /\ tag = Error THEN Styled("black on_red", char)
    ELSE IF tag = Success THEN Styled("dark_green on_green", char)
    ELSE Styled("dark_red on_red", char)

HistoryTileActive(t) == HistoryTile(t[1], t[2], TRUE)
HistoryTileNonActive(t) == HistoryTile(t[1], t[2], FALSE)

\* slice.get(from..to)
SliceGet(s, from, to) ==
    IF from <= to /\ to <= Len(s) THEN Some(SubSeq(s, from + 1, to)) ELSE None

RECURSIVE Concat(_)
Concat(strings) ==
    IF strings = <<>> THEN "" ELSE strings[1] \o Concat(Tail(strings))

\* The history row (lib.rs:596-632)
HistoryRow(l, size) ==
    LET padding == 1
        cols == SatSub(size.cols, 2 * padding)
        all_count == Len(l.history)
        view_count == UnwrapOr(l.groups.next_line, all_count)
        rhs_count == all_count - view_count
        max_shift == SatSub(view_count, cols \div 2)
        shift == Min(Min(rhs_count, cols \div 2), max_shift)
        start_ix == SatSub(view_count, cols) + shift
        end_ix_succ == Min(start_ix + cols, Len(l.history))
        is_lhs_clipped == start_ix > 0
        is_rhs_clipped == rhs_count > cols \div 2
        visible_count == SatSub(view_count, start_ix)
        slice == SubSeq(l.history, start_ix + 1, end_ix_succ)
        history == [i \in 1..Len(slice) |->
                        <<IndexToGroupCharOpt(slice[i][1]), slice[i][2]>>]
        current_ix == visible_count - 1
        before_start == IF is_lhs_clipped THEN 1 ELSE 0
        current == IF visible_count >= 1 /\ current_ix < Len(history)
                   THEN HistoryTileActive(At(history, current_ix)) ELSE ""
        before_slice == SliceGet(history, before_start, current_ix)
        before == IF visible_count >= 1 /\ IsSome(before_slice)
                  THEN Concat([i \in 1..Len(Unwrap(before_slice)) |->
                                   HistoryTileActive(Unwrap(before_slice)[i])])
                  ELSE ""
        after_end == IF is_rhs_clipped THEN Len(history) - 1 ELSE Len(history)
        dots1 == Styled("black on_green", IF is_lhs_clipped THEN "~" ELSE "")
        dots2 == Styled("dark_green on_green", IF is_rhs_clipped THEN "~" ELSE "")
        after_slice == SliceGet(history, visible_count, after_end)
        after == IF IsSome(after_slice)
                 THEN Concat([i \in 1..Len(Unwrap(after_slice)) |->
                                  HistoryTileNonActive(Unwrap(after_slice)[i])])
                 ELSE ""
        pad_str == Styled("on_green", Repeat(" ", padding))
        history_str == pad_str \o dots1 \o before \o current \o after \o dots2
                       \o pad_str
        rhs_spaces == Styled("on_green", Repeat(" ", SatSub(cols, visible_count)))
    IN Row(None, None, history_str \o rhs_spaces)

\* The menu row (lib.rs:636-656)
MenuRow(l, groups) ==
    LET menu_no_selection == <<
            <<"Help", "?">>, <<"Quit", "q">>, <<"Select", "1-9 a-z ^v">>,
            <<"Inverse Selection", "0">>, <<"Deselect", "Esc">>,
            <<"History", "<>">> >>
        menu_selection == << <<"Help", "?">>, <<"Collapse", "Enter">> >>
        menu_button ==
            IF \E i \in 1..Len(groups) : At(l.groups.data, groups[i]).selected
            THEN menu_selection ELSE menu_no_selection
    IN Row(None, None,
           Concat([i \in 1..Len(menu_button) |->
                      " " \o menu_button[i][1]
                      \o Styled("green bold", " " \o menu_button[i][2] \o " ")]))

\* The debug panel rows (lib.rs:660-668)
DebugRows(l, size, debug_rows) ==
    LET debug_lines_start == SatSub(Len(l.debug_lines), debug_rows)
        debug_lines_count == SatSub(Len(l.debug_lines), debug_lines_start)
        shown == SubSeq(l.debug_lines, debug_lines_start + 1, Len(l.debug_lines))
    IN [i \in 1..Len(shown) |->
            Row(None, None,
                Styled("black on_blue",
                       shown[i] \o Repeat(" ", SatSub(size.cols, Len(shown[i])))))]
       \o [i \in 1..(debug_rows - debug_lines_count) |->
            Row(None, None, Styled("on_blue", Repeat(" ", size.cols)))]

\* content_rows of a frame (lib.rs:519, 528-530)
ContentRows(l, size) ==
    LET bottom_menu_rows == 3
        default_debug_rows == 5
        no_menu_rows == SatSub(size.rows, bottom_menu_rows)
        debug_rows_if_any == Min(default_debug_rows, no_menu_rows)
        debug_rows == IF l.debug_lines = <<>> THEN 0 ELSE debug_rows_if_any
    IN [content_rows |-> no_menu_rows - debug_rows, debug_rows |-> debug_rows]

\* The rows the group loop writes in a frame (lib.rs:532-573)
FrameGroupRows(l, size, now) ==
    LET content_rows == ContentRows(l, size).content_rows
        groups == NonEmpty(l)
        collapsed_count == Cardinality({i \in 1..Len(groups) : IsCollapsed(l, groups[i])})
        expanded_count == Len(groups) - collapsed_count
        expanded_rows == SatSub(content_rows, collapsed_count)
        lines_per_group == IF expanded_count = 0 THEN 0
                           ELSE expanded_rows \div expanded_count
        lines_left == IF expanded_count = 0 THEN 0
                      ELSE expanded_rows % expanded_count
    IN GroupRows(l, groups, 0, lines_per_group, lines_left, now)

\* All rows written in a frame, in order (lib.rs:532-668)
FrameRows(l, size, now) ==
    LET rows == ContentRows(l, size)
        group_rows == FrameGroupRows(l, size, now)
        \* for _ in writer.line.0 .. content_rows: no row when the groups
        \* have written content_rows rows or more
        blank == [i \in 1..SatSub(rows.content_rows, Len(group_rows)) |->
                      Row(None, None, "")]
    IN group_rows \o blank
       \o <<ScrollBarRow(l, size), HistoryRow(l, size), MenuRow(l, NonEmpty(l))>>
       \o DebugRows(l, size, rows.debug_rows)

\* on_frame up to the draw step (lib.rs:522-668) on a terminal of the given
\* size at time now: the framebuffer with the frame written into it
FrameWrite(l, prev, size, now) ==
    LET on_frame == FramebufferOnFrame(l.frame_buffer)
        cleared == IF size # prev THEN FramebufferClear(on_frame) ELSE on_frame
    IN WriterLines(cleared, 0, FrameRows(l, size, now))

\* The rows whose changed flag is set
DirtyRowsOf(fb) == {i \in 1..Len(fb.lines) : fb.lines[i].changed}

\* A draw step that prints every stored row, changed or not
DrawAllRows(fb, terminal) ==
    [frame_buffer |->
         [fb EXCEPT !.lines = [i \in 1..Len(fb.lines) |->
                                  [fb.lines[i] EXCEPT !.changed = FALSE]]],
     stdout |-> [i \in 1..Max(Len(terminal), Len(fb.lines)) |->
                    IF i <= Len(fb.lines) THEN fb.lines[i].content ELSE terminal[i]],
     printed |-> {i - 1 : i \in 1..Len(fb.lines)}]

\* A draw step that prints the changed rows and leaves their flags set
DrawKeepFlags(fb, terminal) ==
    LET printed == {i \in 1..Len(fb.lines) : fb.lines[i].changed}
    IN [frame_buffer |-> fb,
        stdout |-> [i \in 1..Max(Len(terminal), Len(fb.lines)) |->
                       IF i \in printed THEN fb.lines[i].content
                       ELSE IF i <= Len(terminal) THEN terminal[i] ELSE ""],
        printed |-> {i - 1 : i \in printed}]

\* The draw step (lib.rs:672-683): every changed row is printed and its
\* flag cleared; the framebuffer and the terminal afterwards, and the rows
\* that were printed
Draw(fb, terminal) ==
    LET printed == {i \in 1..Len(fb.lines) : fb.lines[i].changed}
    IN [frame_buffer |->
            [fb EXCEPT !.lines = [i \in 1..Len(fb.lines) |->
                                     [fb.lines[i] EXCEPT !.changed = FALSE]]],
        stdout |-> [i \in 1..Max(Len(terminal), Len(fb.lines)) |->
                       IF i \in printed THEN fb.lines[i].content
                       ELSE IF i <= Len(terminal) THEN terminal[i] ELSE ""],
        printed |-> {i - 1 : i \in printed}]

-----------------------------------------------------------------------------
(* The producers: Spec                                                     *)
(*                                                                         *)
(* Any number of threads call the API; each modify_logger closure is one   *)
(* action. log() is log_helper2: a first closure (create_group and         *)
(* get_last_line), then push_log, a second closure (create_group and       *)
(* push_line). Neither closure can fail here (the path was created in the  *)
(* same closure and no thread panics while holding the lock), so           *)
(* report_errors has nothing to report.                                    *)

Producers == {"p1", "p2"}
Paths == {<<"a">>, <<"a", "b">>}
\* Log texts: "i" marks the lines logged with the status omitted
Statuses == {StatusOk, Finished(StatusError)}
PushSelectors == {ByPath(p) : p \in Paths} \cup {ById(i) : i \in 0..Cardinality(Paths)}

Idle == [pc |-> "idle", selector |-> <<>>, log |-> MkLog("", StatusDefault)]

\* A completed call: its name, its argument (selector, path or shift), its
\* result, and `pre`, what the call found of the state it is about (the
\* selected flags for shift_selection, the cursor for shift_history)
CallPre(op, arg, res, pre) == [op |-> op, arg |-> arg, res |-> res, pre |-> pre]
Call(op, arg, res) == CallPre(op, arg, res, <<>>)

\* What a closure that took the Logger from l to l2 adds to `pushed`: the
\* LineId of the line it appended, if it appended one
LineCount(l, g) == IF g < Len(l.groups.data) THEN Len(At(l.groups.data, g).lines) ELSE 0
NewLineIds(l, l2) ==
    LET grown == {g \in 0..(Len(l2.groups.data) - 1) : LineCount(l2, g) > LineCount(l, g)}
    IN IF grown = {} THEN <<>>
       ELSE <<Last(At(l2.groups.data, CHOOSE g \in grown : TRUE).lines).timestamp>>

\* The lines pushed so far plus those the producers inside log() are about to
\* push: what MaxLines bounds
LinesBudgeted == Len(logger.history) + Cardinality({p \in Producers : producers[p].pc # "idle"})

\* No frame yet
FrameNone == [shown |-> <<>>, body |-> EmptyMap, printed |-> {},
              same |-> FALSE, resized |-> FALSE]

\* main() has not been called: the terminal is in its original mode, the
\* panic hook is not installed and has captured nothing
MainStart ==
    [pc |-> "start", terminal |-> {}, cleanup |-> FALSE, ended |-> "none",
     error |-> None, panic |-> None, hook |-> None, result |-> None]

\* The threads whose holds of the lock are modelled: two producers and the
\* thread of the render loop
Threads == {"p1", "p2", "render"}

\* No call in progress and the mutex free
ThreadIdle == [op |-> "none", todo |-> <<>>, pc |-> "idle"]
LockFree == [holder |-> None, at |-> [t \in Threads |-> ThreadIdle]]

Init ==
    /\ lock = LockFree
    /\ logger = LoggerDefault
    /\ producers = [p \in Producers |-> Idle]
    /\ prev_size = SizeDefault
    /\ stdout = <<>>
    /\ frame = FrameNone
    /\ last = Call("init", <<>>, Ok("unit"))
    /\ pushed = <<>>
    /\ poisoned = FALSE
    /\ main = MainStart

\* logger().lock().create_group(path)
ApiCreateGroup(path) ==
    LET r == CreateGroup(logger, path)
    IN /\ logger' = r[1]
       /\ last' = Call("create_group", path, Ok(r[2]))
       /\ UNCHANGED <<lock, poisoned, main, producers, prev_size, stdout, frame, pushed>>

\* push_line(selector, log) (lib.rs:313)
ApiPushLine(sel, log) ==
    LET r == PushLine(logger, sel, log)
    IN /\ r[2].ok => LinesBudgeted < MaxLines
       /\ logger' = r[1]
       /\ last' = Call("push_line", sel, r[2])
       /\ pushed' = pushed \o NewLineIds(logger, r[1])
       /\ UNCHANGED <<lock, poisoned, main, producers, prev_size, stdout, frame>>

\* push_log_helper's closure: create_group, then push_line by path
PushLogHelper(l, sel, log) == PushLine(CreateGroup(l, sel)[1], ByPath(sel), log)

\* push_log(selector, log)
ApiPushLog(path, log) ==
    LET r == PushLogHelper(logger, path, log)
    IN /\ LinesBudgeted < MaxLines
       /\ logger' = r[1]
       /\ last' = Call("push_log", path, r[2])
       /\ pushed' = pushed \o NewLineIds(logger, r[1])
       /\ UNCHANGED <<lock, poisoned, main, producers, prev_size, stdout, frame>>

\* log_helper2's first closure: <<the Logger afterwards, last_log_status>>
LogHelper2Read(l, selector) ==
    LET l1 == CreateGroup(l, selector)[1]
        r == GetLastLine(l1, ByPath(selector))
    IN <<l1, IF IsSome(r.val) THEN Some(Unwrap(r.val).status) ELSE None>>

\* log(selector, status, text), up to the end of the first closure; the
\* producer then holds the Log it is about to push
LogReadStep(p, path, status, content) ==
    LET r == LogHelper2Read(logger, path)
        st == IF IsSome(status) THEN Unwrap(status) ELSE UnwrapOr(r[2], StatusDefault)
    IN /\ producers[p].pc = "idle"
       /\ logger' = r[1]
       /\ producers' = [producers EXCEPT ![p] =
              [pc |-> "push_log", selector |-> path, log |-> MkLog(content, st)]]
       /\ last' = Call("log_read", path, Ok("unit"))
       /\ UNCHANGED <<lock, poisoned, main, prev_size, stdout, frame, pushed>>

LogRead(p, path, status, content) ==
    /\ LinesBudgeted < MaxLines
    /\ LogReadStep(p, path, status, content)

\* log(), the rest: push_log(selector, Log { status, content })
LogPush(p) ==
    LET r == PushLogHelper(logger, producers[p].selector, producers[p].log)
    IN /\ producers[p].pc = "push_log"
       /\ logger' = r[1]
       /\ producers' = [producers EXCEPT ![p] = Idle]
       /\ last' = Call("log", producers[p].selector, r[2])
       /\ pushed' = pushed \o NewLineIds(logger, r[1])
       /\ UNCHANGED <<lock, poisoned, main, prev_size, stdout, frame>>

Next ==
    \/ \E path \in Paths : ApiCreateGroup(path)
    \/ \E sel \in PushSelectors, st \in Statuses : ApiPushLine(sel, MkLog("x", st))
    \/ \E path \in Paths : ApiPushLog(path, MkLog("x", Finished(StatusError)))
    \/ \E p \in Producers, path \in Paths : LogRead(p, path, None, "i")
    \/ \E p \in Producers : LogPush(p)

Spec == Init /\ [][Next]_vars

-----------------------------------------------------------------------------
(* Selection and history navigation: SpecNav                               *)
(*                                                                         *)
(* The public API functions shift_selection and shift_history, and         *)
(* modify_group / modify_all_groups with the closures the key handlers of  *)
(* on_frame pass to them, called in any order while a producer logs. None  *)
(* of them reads the framebuffer, so no frame is rendered here.            *)

\* The groups of SpecNav are created in this order
NavNames == <<"g1", "g2", "g3", "g4", "g5", "g6", "g7", "g8">>
SelectionShifts == {-1, 1}
HistoryShifts == {-1, 1, -10, 10}

\* push_log(name, log) on one of the groups that exist or on the next one
NavPushLog(k) ==
    LET r == PushLogHelper(logger, <<NavNames[k]>>, MkLog("x", StatusOk))
    IN /\ k <= Len(logger.groups.data) + 1
       /\ Len(logger.history) < NavMaxLines
       /\ logger' = r[1]
       /\ last' = Call("push_log", <<NavNames[k]>>, r[2])
       /\ pushed' = pushed \o NewLineIds(logger, r[1])
       /\ UNCHANGED <<lock, poisoned, main, producers, prev_size, stdout, frame>>

\* Logger::group_mut: the selector's GroupId; the closure then gets that
\* group whether or not it has visible lines
GroupMut(l, sel) == SelectorGroupId(l, sel)

\* modify_group(index, |g| g.selected = !g.selected) (lib.rs:703)
ToggleSelected(l, sel) ==
    LET r == GroupMut(l, sel)
    IN IF ~r.ok THEN <<l, r>>
       ELSE <<[l EXCEPT !.groups.data[r.val + 1].selected = ~@], Ok("unit")>>

ApiToggleSelected(sel) ==
    LET r == ToggleSelected(logger, sel)
    IN /\ logger' = r[1]
       /\ last' = Call("toggle_selected", sel, r[2])
       /\ UNCHANGED <<lock, poisoned, main, producers, prev_size, stdout, frame, pushed>>

SelectedFlags(l) == [g \in 1..Len(l.groups.data) |-> l.groups.data[g].selected]

\* shift_selection(shift) (lib.rs:348)
ApiShiftSelection(shift) ==
    /\ logger' = ShiftSelection(logger, shift)
    /\ last' = CallPre("shift_selection", shift, Ok("unit"), SelectedFlags(logger))
    /\ UNCHANGED <<lock, poisoned, main, producers, prev_size, stdout, frame, pushed>>

\* shift_history(shift) (lib.rs:352)
ApiShiftHistory(shift) ==
    /\ logger' = ShiftHistory(logger, shift)
    /\ last' = CallPre("shift_history", shift, Ok("unit"), logger.groups.next_line)
    /\ UNCHANGED <<lock, poisoned, main, producers, prev_size, stdout, frame, pushed>>

\* modify_all_groups(|g| g.selected = false): the groups with visible lines
DeselectAll(l) ==
    LET ne == NonEmpty(l)
        shown == {ne[i] : i \in 1..Len(ne)}
    IN [l EXCEPT !.groups.data = [i \in 1..Len(@) |->
            IF (i - 1) \in shown THEN [@[i] EXCEPT !.selected = FALSE] ELSE @[i]]]

\* The Esc key (lib.rs:712)
ApiEscKey ==
    /\ logger' = DeselectAll(logger)
    /\ last' = CallPre("esc", <<>>, Ok(TRUE), SelectedFlags(logger))
    /\ UNCHANGED <<lock, poisoned, main, producers, prev_size, stdout, frame, pushed>>

NextNav ==
    \/ ApiEscKey
    \/ \E k \in 1..NavMaxGroups : NavPushLog(k)
    \/ \E g \in 0..NavMaxGroups : ApiToggleSelected(ById(g))
    \/ \E shift \in SelectionShifts : ApiShiftSelection(shift)
    \/ \E shift \in HistoryShifts : ApiShiftHistory(shift)

SpecNav == Init /\ [][NextNav]_vars

-----------------------------------------------------------------------------
(* Collapse policies under the time cursor: SpecPolicy                     *)
(*                                                                         *)
(* Two groups get lines of every status; a caller picks a group's policy   *)
(* (modify_group with a closure that writes auto_collapse), sets the       *)
(* explicit override (collapse_group, expand_group) and moves the time     *)
(* cursor (shift_history).                                                 *)

PolNames == <<"build", "test">>
PolStatuses == {StatusOk, Finished(StatusOk), StatusError, Finished(StatusError)}
PolPolicies == {CollapseOnSuccess, ExpandOnError}

\* create_group(name) on one of the groups that exist or on the next one
PolCreateGroup(k) ==
    /\ k <= Len(logger.groups.data) + 1
    /\ ApiCreateGroup(<<PolNames[k]>>)

\* push_log(name, log)
PolPushLog(k, status) ==
    LET r == PushLogHelper(logger, <<PolNames[k]>>, MkLog("x", status))
    IN /\ k <= Len(logger.groups.data) + 1
       /\ Len(logger.history) < PolMaxLines
       /\ logger' = r[1]
       /\ last' = Call("push_log", <<>>, r[2])
       /\ pushed' = pushed \o NewLineIds(logger, r[1])
       /\ UNCHANGED <<lock, poisoned, main, producers, prev_size, stdout, frame>>

\* modify_group(selector, |g| g.auto_collapse = policy)
SetAutoCollapse(l, sel, policy) ==
    LET r == GroupMut(l, sel)
    IN IF ~r.ok THEN <<l, r>>
       ELSE <<[l EXCEPT !.groups.data[r.val + 1].auto_collapse = policy], Ok("unit")>>

ApiSetAutoCollapse(sel, policy) ==
    LET r == SetAutoCollapse(logger, sel, policy)
    IN /\ r[2].ok
       /\ logger' = r[1]
       /\ last' = Call("set_auto_collapse", <<>>, r[2])
       /\ UNCHANGED <<lock, poisoned, main, producers, prev_size, stdout, frame, pushed>>

\* modify_group_collapsed(selector, |b| *b = value)
SetCollapsed(l, sel, value) ==
    LET r == GroupMut(l, sel)
    IN IF ~r.ok THEN <<l, r>>
       ELSE <<[l EXCEPT !.groups.data[r.val + 1].collapsed = value], Ok("unit")>>

\* collapse_group(selector)
ApiCollapseGroup(sel) ==
    LET r == SetCollapsed(logger, sel, Some(TRUE))
    IN /\ logger' = r[1]
       /\ r[2].ok
       /\ last' = Call("collapse_group", <<>>, r[2])
       /\ UNCHANGED <<lock, poisoned, main, producers, prev_size, stdout, frame, pushed>>

\* expand_group(selector)
ApiExpandGroup(sel) ==
    LET r == SetCollapsed(logger, sel, Some(FALSE))
    IN /\ logger' = r[1]
       /\ r[2].ok
       /\ last' = Call("expand_group", <<>>, r[2])
       /\ UNCHANGED <<lock, poisoned, main, producers, prev_size, stdout, frame, pushed>>

\* The policy and the override of "build" change and it gets lines of every
\* status; "test" only interleaves its lines into the history.
NextPolicy ==
    \/ \E k \in 1..Len(PolNames) : PolCreateGroup(k)
    \/ \E st \in PolStatuses : PolPushLog(1, st)
    \/ PolPushLog(2, Finished(StatusError))
    \/ \E policy \in PolPolicies : ApiSetAutoCollapse(ById(0), policy)
    \/ ApiCollapseGroup(ById(0))
    \/ ApiExpandGroup(ById(0))
    \/ \E shift \in SelectionShifts : ApiShiftHistory(shift)

SpecPolicy == Init /\ [][NextPolicy]_vars

-----------------------------------------------------------------------------
(* Frames and scrolling: SpecFrame                                         *)
(*                                                                         *)
(* Producers push lines to two groups, the render loop draws frames on a   *)
(* terminal whose size changes, and a caller scrolls the groups.           *)

FrameNames == <<"build", "test">>
\* cols >= 3: the scroll bar and the history row subtract from cols
FrameSizes == {[cols |-> 4, rows |-> 6], [cols |-> 4, rows |-> 9]}
ScrollOffsets == {-1, 1}
\* SystemTime::now() at a frame: the time of the next push
FrameNows(l) == {ClockMs(l)}

\* The body rows a frame gave each group it showed, by GroupId: the rows
\* written with a group line index, which are consecutive
FrameBody(shown, fb) ==
    [g \in {shown[i] : i \in 1..Len(shown)} |->
        LET ix == (CHOOSE i \in 1..Len(shown) : shown[i] = g) - 1
            line_range == MapGet(fb.group_to_group_lines, ix)
        IN IF IsSome(line_range)
           THEN Unwrap(line_range)[2] - Unwrap(line_range)[1] + 1 ELSE 0]

\* Whether the frame written into `written` gave every row the content the
\* framebuffer `fb` held for it, and as many rows as `fb` held: one entry of
\* line_to_group is inserted per row written
FrameSame(fb, written) ==
    LET n == Cardinality(DOMAIN written.line_to_group)
    IN /\ n = Len(fb.lines)
       /\ \A i \in 1..n : written.lines[i].content = fb.lines[i].content

\* A frame that lays out under one hold of the lock and draws under
\* another: a producer's push gets in between
ApiFrameTwoHolds(size, now) ==
    \E written \in {FrameWrite(logger, prev_size, size, now)} :
    \E between \in {PushLogHelper(logger, <<FrameNames[1]>>, MkLog("x", StatusOk))[1]} :
    \E drawn \in {Draw(written, stdout)} :
       /\ Len(logger.history) < FrameMaxLines
       /\ logger' = [between EXCEPT !.frame_buffer = drawn.frame_buffer]
       /\ prev_size' = size
       /\ stdout' = drawn.stdout
       /\ frame' = [shown |-> NonEmpty(logger),
                    body |-> FrameBody(NonEmpty(logger), written),
                    printed |-> drawn.printed,
                    same |-> FrameSame(logger.frame_buffer, written),
                    resized |-> size # prev_size]
       /\ last' = Call("frame", <<>>, Ok(TRUE))
       /\ pushed' = pushed \o NewLineIds(logger, between)
       /\ UNCHANGED <<lock, poisoned, main, producers>>

\* One frame of run(): the modify_logger closure of on_frame (lib.rs:521-685)
ApiFrame(size, now) ==
    \E written \in {FrameWrite(logger, prev_size, size, now)} :
    \E drawn \in {Draw(written, stdout)} :
       /\ logger' = [logger EXCEPT !.frame_buffer = drawn.frame_buffer]
       /\ prev_size' = size
       /\ stdout' = drawn.stdout
       /\ frame' = [shown |-> NonEmpty(logger),
                    body |-> FrameBody(NonEmpty(logger), written),
                    printed |-> drawn.printed,
                    same |-> FrameSame(logger.frame_buffer, written),
                    resized |-> size # prev_size]
       /\ last' = Call("frame", <<>>, Ok(TRUE))
       /\ UNCHANGED <<lock, poisoned, main, producers, pushed>>

\* scroll(group_index, offset)
ApiScroll(sel, offset) ==
    LET r == Scroll(logger, sel, offset)
    IN /\ logger' = r[1]
       /\ last' = CallPre("scroll", sel, r[2],
                          IF r[2].ok THEN At(logger.groups.data, sel.id).scroll
                          ELSE None)
       /\ UNCHANGED <<lock, poisoned, main, producers, prev_size, stdout, frame, pushed>>

\* push_log(name, log)
FramePushLog(k, status) ==
    LET r == PushLogHelper(logger, <<FrameNames[k]>>, MkLog("x", status))
    IN /\ k <= Len(logger.groups.data) + 1
       /\ Len(logger.history) < FrameMaxLines
       /\ logger' = r[1]
       /\ last' = Call("push_log", <<>>, r[2])
       /\ pushed' = pushed \o NewLineIds(logger, r[1])
       /\ UNCHANGED <<lock, poisoned, main, producers, prev_size, stdout, frame>>

\* "build" gets lines of both statuses and is scrolled; "test" takes rows
\* from it when it shows up
NextFrame ==
    \/ \E st \in Statuses : FramePushLog(1, st)
    \/ FramePushLog(2, Finished(StatusError))
    \/ \E size \in FrameSizes : \E now \in FrameNows(logger) : ApiFrame(size, now)
    \/ \E offset \in ScrollOffsets : ApiScroll(ById(0), offset)

SpecFrame == Init /\ [][NextFrame]_vars

-----------------------------------------------------------------------------
(* The build/test scenario: SpecScenario                                   *)
(*                                                                         *)
(* One producer creates "build" and "test", logs five lines to "build"     *)
(* with the status omitted and pushes one finished Error line to "test".   *)
(* After that it may log more, and the time cursor may move.  The render   *)
(* loop draws frames all along.  No policy and no override is ever set.    *)

ScenarioBuildLines == 5

BuildLines(l) == LineCount(l, 0)
TestLines(l) == LineCount(l, 1)

\* The scenario's pushes have all happened
ScenarioPushed(l) ==
    /\ Len(l.groups.data) = 2
    /\ BuildLines(l) >= ScenarioBuildLines
    /\ TestLines(l) >= 1

\* create_group(["build"]), then create_group(["test"])
ScenarioCreateGroup(k) ==
    /\ Len(logger.groups.data) = k - 1
    /\ ApiCreateGroup(<<FrameNames[k]>>)

\* log("build", None, "x"), first closure
ScenarioLogBuild ==
    /\ Len(logger.groups.data) = 2
    /\ BuildLines(logger) < ScenarioBuildLines
    /\ LogReadStep("p1", <<"build">>, None, "x")

\* push_log("test", Log { content, status: Status::error().finished() })
ScenarioPushTest ==
    LET r == PushLogHelper(logger, <<"test">>, MkLog("x", Finished(StatusError)))
    IN /\ Len(logger.groups.data) = 2
       /\ BuildLines(logger) = ScenarioBuildLines
       /\ TestLines(logger) = 0
       /\ logger' = r[1]
       /\ last' = Call("push_log", <<>>, r[2])
       /\ pushed' = pushed \o NewLineIds(logger, r[1])
       /\ UNCHANGED <<lock, poisoned, main, producers, prev_size, stdout, frame>>

\* Later pushes: push_log(name, log)
ScenarioPushLater(k, status) ==
    LET r == PushLogHelper(logger, <<FrameNames[k]>>, MkLog("y", status))
    IN /\ ScenarioPushed(logger)
       /\ Len(logger.history) < ScenMaxLines
       /\ logger' = r[1]
       /\ last' = Call("push_log", <<>>, r[2])
       /\ pushed' = pushed \o NewLineIds(logger, r[1])
       /\ UNCHANGED <<lock, poisoned, main, producers, prev_size, stdout, frame>>

\* Later moves of the time cursor
ScenarioShiftHistory(shift) ==
    /\ ScenarioPushed(logger)
    /\ ApiShiftHistory(shift)

NextScenario ==
    \/ \E k \in 1..Len(FrameNames) : ScenarioCreateGroup(k)
    \/ ScenarioLogBuild
    \/ LogPush("p1")
    \/ ScenarioPushTest
    \/ ScenarioPushLater(1, Finished(StatusOk))
    \/ ScenarioPushLater(2, StatusOk)
    \/ \E shift \in SelectionShifts : ScenarioShiftHistory(shift)
    \/ \E size \in FrameSizes : \E now \in FrameNows(logger) : ApiFrame(size, now)

SpecScenario == Init /\ [][NextScenario]_vars

-----------------------------------------------------------------------------
(* The user's toggle of a group: SpecToggle                                *)
(*                                                                         *)
(* on_frame's handlers of the Enter key and of a mouse click (lib.rs:709   *)
(* and 748-759), on the groups two producers fill, with a frame drawn      *)
(* between the events. The click handler takes the lock three times, but   *)
(* its first two closures only read the framebuffer, which nothing but the *)
(* frame of the same thread writes: the handler is one action.             *)

\* SpecToggle: total number of lines pushed, and the last row clicked
TogMaxLines == 2
TogMaxRow == 3

TogSize == [cols |-> 4, rows |-> 9]
\* A click inside the left margin (column < 4) and one outside it
TogColumns == {0, 4}

\* The closure of both toggles on the group with GroupId g.
\* a closure that collapses: g.collapsed = Some(true)
ToggleClosureCollapse(l, g) == [l EXCEPT !.groups.data[g + 1].collapsed = Some(TRUE)]
\* a closure that steps None -> Some(true) -> Some(false) -> None
ToggleClosureCycle(l, g) ==
    LET c == At(l.groups.data, g).collapsed
    IN [l EXCEPT !.groups.data[g + 1].collapsed =
            IF IsNone(c) THEN Some(TRUE) ELSE IF Unwrap(c) THEN Some(FALSE) ELSE None]
\* g.collapsed = Some(!g.as_ref().is_collapsed())
ToggleClosure(l, g) ==
    [l EXCEPT !.groups.data[g + 1].collapsed = Some(~IsCollapsed(l, g))]

\* modify_group(group_id, |g| g.collapsed = Some(!g.is_collapsed()))
ToggleCollapsed(l, sel) ==
    LET r == GroupMut(l, sel)
    IN IF ~r.ok THEN <<l, r>> ELSE <<ToggleClosure(l, r.val), Ok("unit")>>

\* modify_group(group_id, |g| g.selected = true)
SetSelected(l, sel) ==
    LET r == GroupMut(l, sel)
    IN IF ~r.ok THEN <<l, r>>
       ELSE <<[l EXCEPT !.groups.data[r.val + 1].selected = TRUE], Ok("unit")>>

\* Enter: modify_all_groups(|g| if g.selected { g.collapsed = Some(!..) })
RECURSIVE EnterLoop(_, _)
EnterLoop(l, groups) ==
    IF groups = <<>> THEN l
    ELSE EnterLoop(IF At(l.groups.data, groups[1]).selected
                   THEN ToggleClosure(l, groups[1]) ELSE l,
                   Tail(groups))
EnterKey(l) == EnterLoop(l, NonEmpty(l))

\* Framebuffer::line_to_group: the group index written with the row
LineToGroup(fb, row) ==
    LET found == MapGet(fb.line_to_group, row)
    IN IF IsSome(found) THEN Unwrap(found) ELSE None

\* MouseEventKind::Down at (row, column): <<the Logger afterwards, what
\* on_frame returns>>. The group index of the framebuffer is passed to
\* modify_group as a GroupId.
MouseDown(l, row, column) ==
    LET group_id == LineToGroup(l.frame_buffer, row)
    IN IF IsNone(group_id) THEN <<l, Ok(TRUE)>>
       ELSE LET first_line ==
                    UnwrapOr(MapGet(l.frame_buffer.group_to_lines, Unwrap(group_id)),
                             <<0, 0>>)[1]
            IN IF row = first_line /\ column < 4
               THEN LET r == ToggleCollapsed(l, ById(Unwrap(group_id)))
                    IN IF r[2].ok THEN <<r[1], Ok(TRUE)>> ELSE <<l, r[2]>>
               ELSE LET r == SetSelected(DeselectAll(l), ById(Unwrap(group_id)))
                    IN IF r[2].ok THEN <<r[1], Ok(TRUE)>> ELSE <<DeselectAll(l), r[2]>>

\* What an event finds: every group's override and its effective state
Overrides(l) == [g \in 1..Len(l.groups.data) |-> l.groups.data[g].collapsed]
Effective(l) == [g \in 1..Len(l.groups.data) |-> IsCollapsed(l, g - 1)]
TogglePre(l) == [override |-> Overrides(l), effective |-> Effective(l)]

ApiEnterKey ==
    /\ logger' = EnterKey(logger)
    /\ last' = CallPre("enter", <<>>, Ok(TRUE), TogglePre(logger))
    /\ UNCHANGED <<lock, poisoned, main, producers, prev_size, stdout, frame, pushed>>

\* The group a click at (row, column) toggles, if it is one on a header
MouseDownToggles(l, row, column) ==
    LET group_id == LineToGroup(l.frame_buffer, row)
    IN IF /\ IsSome(group_id)
          /\ Unwrap(group_id) \in DOMAIN l.frame_buffer.group_to_lines
          /\ row = l.frame_buffer.group_to_lines[Unwrap(group_id)][1]
          /\ column < 4
       THEN group_id ELSE None

\* `arg` is the group the click toggled, if any
ApiMouseDown(row, column) ==
    LET r == MouseDown(logger, row, column)
    IN /\ logger' = r[1]
       /\ last' = CallPre("mouse_down", MouseDownToggles(logger, row, column), r[2],
                          TogglePre(logger))
       /\ UNCHANGED <<lock, poisoned, main, producers, prev_size, stdout, frame, pushed>>

\* push_log(name, log)
TogPushLog(k, status) ==
    LET r == PushLogHelper(logger, <<FrameNames[k]>>, MkLog("x", status))
    IN /\ k <= Len(logger.groups.data) + 1
       /\ Len(logger.history) < TogMaxLines
       /\ logger' = r[1]
       /\ last' = Call("push_log", <<>>, r[2])
       /\ pushed' = pushed \o NewLineIds(logger, r[1])
       /\ UNCHANGED <<lock, poisoned, main, producers, prev_size, stdout, frame>>

NextToggle ==
    \/ \E st \in Statuses : TogPushLog(1, st)
    \/ TogPushLog(2, Finished(StatusError))
    \/ \E now \in FrameNows(logger) : ApiFrame(TogSize, now)
    \/ ApiEnterKey
    \/ \E row \in 0..TogMaxRow, column \in TogColumns : ApiMouseDown(row, column)

SpecToggle == Init /\ [][NextToggle]_vars

-----------------------------------------------------------------------------
(* Frames that repeat: SpecRepaint                                         *)
(*                                                                         *)
(* The render loop draws frame after frame while the producers push and    *)
(* the terminal is resized between sizes too low for the groups, so that   *)
(* two sizes can give every row the same content.                          *)

\* SpecRepaint: total number of lines pushed
RepMaxLines == 2

RepSizes == {[cols |-> 4, rows |-> 3], [cols |-> 4, rows |-> 4]}
\* SystemTime::now() at a frame: the time of the next push, or a tenth of a
\* second later, when the spinner has moved on
RepNows(l) == {ClockMs(l), ClockMs(l) + 100}

\* push_log(name, log)
RepPushLog(k, status) ==
    LET r == PushLogHelper(logger, <<FrameNames[k]>>, MkLog("x", status))
    IN /\ k <= Len(logger.groups.data) + 1
       /\ Len(logger.history) < RepMaxLines
       /\ logger' = r[1]
       /\ last' = Call("push_log", <<>>, r[2])
       /\ pushed' = pushed \o NewLineIds(logger, r[1])
       /\ UNCHANGED <<lock, poisoned, main, producers, prev_size, stdout, frame>>

NextRepaint ==
    \/ \E k \in 1..Len(FrameNames), st \in Statuses : RepPushLog(k, st)
    \/ \E size \in RepSizes : \E now \in RepNows(logger) : ApiFrame(size, now)

SpecRepaint == Init /\ [][NextRepaint]_vars

-----------------------------------------------------------------------------
(* The API when the lock can fail: SpecLock                                *)
(*                                                                         *)
(* A Mutex is poisoned when a thread panics while it holds the guard, and  *)
(* stays poisoned: every later lock() returns Err. Here a caller passes    *)
(* modify_group a closure that panics, and the producers go on calling the *)
(* simplified API (debug, log, push_log, set_header, which hand their      *)
(* Result to report_errors) and the functions that return their Result     *)
(* (set_group_header, set_group_footer, collapse_group, expand_group).     *)

\* SpecLock: total number of lines pushed, and of debug lines
LockMaxLines == 2
LockMaxDebug == 2

LockPaths == {<<"build">>}
\* The thread that calls log and set_header, which take the lock twice
LockProducers == {"p1"}
\* "test" is never created and there is never a second group
LockSelectors == {ByPath(<<"build">>), ByPath(<<"test">>), ById(0), ById(1)}

\* modify_logger's error (lib.rs:298)
LockError == Err("Failed to lock logger: poisoned lock")

\* modify_logger(f): `r` is <<the Logger after f, what f returns>>; f does
\* not run when the lock is poisoned
ModifyLogger(p, l, r) == IF p THEN <<l, LockError>> ELSE <<r[1], Ok(r[2])>>
\* modify_logger(f)? for an f that returns a Result
ModifyLoggerFlat(p, l, r) == IF p THEN <<l, LockError>> ELSE r

\* report_errors that writes the debug line without taking the lock
ReportErrorsUnlocked(p, l, res) ==
    IF res.ok THEN l ELSE [l EXCEPT !.debug_lines = Append(@, "Error: " \o res.val)]
\* report_errors(result): modify_logger(push "Error: ..").ok()
ReportErrors(p, l, res) ==
    IF res.ok THEN l
    ELSE ModifyLogger(p, l, <<[l EXCEPT !.debug_lines =
                                   Append(@, "Error: " \o res.val)], "unit">>)[1]

\* What a call found: the debug lines, and after the call the error it
\* ran into, if any
LockPre(l, res) ==
    [debug |-> l.debug_lines, error |-> IF res.ok THEN None ELSE Some(res.val)]

\* debug(text)
ApiDebug(text) ==
    LET r == ModifyLogger(poisoned, logger,
                          <<[logger EXCEPT !.debug_lines = Append(@, text)], "unit">>)
    IN /\ Len(logger.debug_lines) < LockMaxDebug
       /\ logger' = ReportErrors(poisoned, r[1], r[2])
       /\ last' = CallPre("debug", text, Ok("unit"), LockPre(logger, r[2]))
       /\ UNCHANGED <<lock, poisoned, main, producers, prev_size, stdout, frame, pushed>>

\* push_log(selector, log): report_errors(push_log_helper(selector, log))
LockPushLog(path, log) ==
    LET r == ModifyLoggerFlat(poisoned, logger, PushLogHelper(logger, path, log))
    IN /\ Len(logger.history) < LockMaxLines
       /\ logger' = ReportErrors(poisoned, r[1], r[2])
       /\ last' = CallPre("push_log", path, Ok("unit"), LockPre(logger, r[2]))
       /\ pushed' = pushed \o NewLineIds(logger, r[1])
       /\ UNCHANGED <<lock, poisoned, main, producers, prev_size, stdout, frame>>

\* log(selector, None, text) up to the end of log_helper2's first closure;
\* when the lock fails, log_helper2 returns the error and log reports it
LockLogRead(p, path, content) ==
    LET read == LogHelper2Read(logger, path)
        r == ModifyLogger(poisoned, logger, read)
    IN /\ producers[p].pc = "idle"
       /\ Len(logger.history) < LockMaxLines
       /\ logger' = ReportErrors(poisoned, r[1], r[2])
       /\ producers' = [producers EXCEPT ![p] =
              IF r[2].ok
              THEN [pc |-> "push_log", selector |-> path,
                    log |-> MkLog(content, UnwrapOr(read[2], StatusDefault))]
              ELSE Idle]
       /\ last' = CallPre(IF r[2].ok THEN "log_read" ELSE "log", path, Ok("unit"),
                          LockPre(logger, r[2]))
       /\ UNCHANGED <<lock, poisoned, main, prev_size, stdout, frame, pushed>>

\* log(), the rest: push_log(selector, Log { status, content }), which
\* reports its own error; log_helper2 then returns Ok(())
LockLogPush(p) ==
    LET r == ModifyLoggerFlat(poisoned, logger,
                 PushLogHelper(logger, producers[p].selector, producers[p].log))
    IN /\ producers[p].pc = "push_log"
       /\ logger' = ReportErrors(poisoned, r[1], r[2])
       /\ producers' = [producers EXCEPT ![p] = Idle]
       /\ last' = CallPre("log", producers[p].selector, Ok("unit"), LockPre(logger, r[2]))
       /\ pushed' = pushed \o NewLineIds(logger, r[1])
       /\ UNCHANGED <<lock, poisoned, main, prev_size, stdout, frame>>

\* set_header(selector, s) up to the end of set_header_helper's first
\* closure, modify_logger(|l| l.create_group(sel))?
LockSetHeaderCreate(p, path, s) ==
    LET r == ModifyLogger(poisoned, logger, CreateGroup(logger, path))
    IN /\ producers[p].pc = "idle"
       /\ logger' = ReportErrors(poisoned, r[1], r[2])
       /\ producers' = [producers EXCEPT ![p] =
              IF r[2].ok
              THEN [pc |-> "set_header", selector |-> path,
                    log |-> MkLog(s, StatusDefault)]
              ELSE Idle]
       /\ last' = CallPre(IF r[2].ok THEN "set_header_create" ELSE "set_header",
                          path, Ok("unit"), LockPre(logger, r[2]))
       /\ UNCHANGED <<lock, poisoned, main, prev_size, stdout, frame, pushed>>

\* modify_group(selector, |g| g.header = s) / g.footer = s
SetGroupHeader(l, sel, s) ==
    LET r == GroupMut(l, sel)
    IN IF ~r.ok THEN <<l, r>>
       ELSE <<[l EXCEPT !.groups.data[r.val + 1].header = s], Ok("unit")>>
\* a closure that writes the text to the footer and to the header
SetGroupFooterBoth(l, sel, s) ==
    LET r == GroupMut(l, sel)
    IN IF ~r.ok THEN <<l, r>>
       ELSE <<[l EXCEPT !.groups.data[r.val + 1].footer = s,
                        !.groups.data[r.val + 1].header = s], Ok("unit")>>
SetGroupFooter(l, sel, s) ==
    LET r == GroupMut(l, sel)
    IN IF ~r.ok THEN <<l, r>>
       ELSE <<[l EXCEPT !.groups.data[r.val + 1].footer = s], Ok("unit")>>

\* set_header(), the rest: modify_group_header(sel, |h| *h = s), then
\* report_errors
LockSetHeaderWrite(p) ==
    LET r == ModifyLoggerFlat(poisoned, logger,
                 SetGroupHeader(logger, ByPath(producers[p].selector),
                                producers[p].log.content))
    IN /\ producers[p].pc = "set_header"
       /\ logger' = ReportErrors(poisoned, r[1], r[2])
       /\ producers' = [producers EXCEPT ![p] = Idle]
       /\ last' = CallPre("set_header", producers[p].selector, Ok("unit"),
                          LockPre(logger, r[2]))
       /\ UNCHANGED <<lock, poisoned, main, prev_size, stdout, frame, pushed>>

\* A function that returns modify_group's Result to its caller: `r` is what
\* its closure does to the Logger
LockReturn(op, sel, r) ==
    LET res == ModifyLoggerFlat(poisoned, logger, r)
    IN /\ logger' = res[1]
       /\ last' = CallPre(op, sel, res[2], LockPre(logger, res[2]))
       /\ UNCHANGED <<lock, poisoned, main, producers, prev_size, stdout, frame, pushed>>

\* set_group_header(selector, s), set_group_footer(selector, s),
\* collapse_group(selector), expand_group(selector)
LockSetGroupHeader(sel, s) ==
    LockReturn("set_group_header", sel, SetGroupHeader(logger, sel, s))
LockSetGroupFooter(sel, s) ==
    LockReturn("set_group_footer", sel, SetGroupFooter(logger, sel, s))
LockCollapseGroup(sel) ==
    LockReturn("collapse_group", sel, SetCollapsed(logger, sel, Some(TRUE)))
LockExpandGroup(sel) ==
    LockReturn("expand_group", sel, SetCollapsed(logger, sel, Some(FALSE)))

\* What the panic hook main() installs does with a panic's message
HookCapture(m, msg) == IF m.pc = "start" THEN m ELSE [m EXCEPT !.hook = Some(msg)]

\* modify_group(selector, |_| panic!(..)): the closure runs with the lock
\* held, the guard is dropped while the thread unwinds and the mutex is
\* poisoned; the call returns Err when the lock or the selector fails
ApiClosurePanics(sel) ==
    LET r == ModifyLoggerFlat(poisoned, logger, <<logger, GroupMut(logger, sel)>>)
    IN /\ poisoned' = (poisoned \/ r[2].ok)
       /\ main' = IF r[2].ok THEN HookCapture(main, "closure") ELSE main
       /\ last' = CallPre("modify_group", sel,
                          IF r[2].ok THEN Ok("panic") ELSE r[2], LockPre(logger, r[2]))
       /\ UNCHANGED <<lock, logger, producers, prev_size, stdout, frame, pushed>>

NextLock ==
    \/ ApiDebug("d")
    \/ \E path \in LockPaths : LockPushLog(path, MkLog("x", StatusOk))
    \/ \E p \in LockProducers, path \in LockPaths : LockLogRead(p, path, "i")
    \/ \E p \in LockProducers : LockLogPush(p)
    \/ \E p \in LockProducers, path \in LockPaths : LockSetHeaderCreate(p, path, "h")
    \/ \E p \in LockProducers : LockSetHeaderWrite(p)
    \/ \E sel \in LockSelectors : LockSetGroupHeader(sel, "H")
    \/ \E sel \in LockSelectors : LockSetGroupFooter(sel, "F")
    \/ \E sel \in LockSelectors : LockCollapseGroup(sel)
    \/ \E sel \in LockSelectors : LockExpandGroup(sel)
    \/ \E sel \in LockSelectors : ApiClosurePanics(sel)

SpecLock == Init /\ [][NextLock]_vars

-----------------------------------------------------------------------------
(* main() and run(): SpecMain                                              *)
(*                                                                         *)
(* The thread that calls main(): it installs the panic hook, captures the  *)
(* terminal, runs the render loop inside catch_unwind, cleans the terminal *)
(* up and returns. A frame can succeed, see the quit key, fail with an I/O *)
(* error or a lock error, or panic. Meanwhile a producer pushes lines and  *)
(* a caller's closure may panic with the lock held.                        *)
(* Every crossterm call of capture() and cleanup() ends in `?`: each can   *)
(* fail, and the steps after the one that failed do not run.               *)

\* SpecMain: total number of lines pushed, and of debug lines
MainMaxLines == 1
MainMaxDebug == 2

MainSize == [cols |-> 4, rows |-> 5]

\* What capture() sets, in its order, and what cleanup() resets, in its
\* order (terminal.rs:23-43)
CaptureSteps == <<"raw", "nowrap", "alt", "hide", "mouse">>
CleanupSteps == <<"nowrap", "raw", "alt", "hide", "mouse">>
StepsDone(steps, k) == {steps[i] : i \in 1..k}

IoError == Err("io error")

\* main() up to the end of terminal::capture()?: the first k steps of
\* capture succeed; with k below their number the next one fails and main
\* returns its error
MainCapture(k) ==
    /\ main.pc = "start"
    /\ main' = IF k = Len(CaptureSteps)
               THEN [main EXCEPT !.pc = "run", !.terminal = StepsDone(CaptureSteps, k)]
               ELSE [main EXCEPT !.pc = "returned", !.terminal = StepsDone(CaptureSteps, k),
                                 !.result = Some(IoError)]
    /\ last' = Call("capture", <<>>, IF k = Len(CaptureSteps) THEN Ok("unit") ELSE IoError)
    /\ UNCHANGED <<lock, logger, producers, prev_size, stdout, frame, pushed, poisoned>>

\* The draw step when the write of row `stop` fails: the changed rows
\* before it were printed and their flags cleared
DrawUntil(fb, terminal, stop) ==
    LET printed == {i \in 1..Len(fb.lines) : fb.lines[i].changed /\ i < stop}
    IN [frame_buffer |->
            [fb EXCEPT !.lines = [i \in 1..Len(fb.lines) |->
                                     IF i \in printed
                                     THEN [fb.lines[i] EXCEPT !.changed = FALSE]
                                     ELSE fb.lines[i]]],
        stdout |-> [i \in 1..Max(Len(terminal), Len(fb.lines)) |->
                       IF i \in printed THEN fb.lines[i].content
                       ELSE IF i <= Len(terminal) THEN terminal[i] ELSE ""],
        printed |-> {i - 1 : i \in printed}]

\* What on_frame returns to run() for each way a frame can go
FrameResult(outcome) ==
    CASE outcome = "continue" -> Ok(TRUE)
      [] outcome = "quit" -> Ok(FALSE)
      [] outcome = "io_draw" -> IoError
      [] outcome = "io_poll" -> IoError
FrameOutcomes == {"continue", "quit", "io_draw", "io_poll"}

\* run()'s match on what on_frame returned
RunMatch(m, res) ==
    IF ~res.ok THEN [m EXCEPT !.pc = "report", !.error = Some(res.val)]
    ELSE IF res.val THEN m
    ELSE [m EXCEPT !.pc = "cleanup", !.ended = "quit"]

\* One iteration of run()'s loop up to the match: on_frame writes and draws
\* the frame under the lock, then polls for an event. "io_draw" is an I/O
\* error at the first changed row, "io_poll" one of event::poll or read.
RunFrame(outcome, now) ==
    /\ main.pc = "run"
    /\ ~poisoned
    /\ ~FrameResult(outcome).ok => Len(logger.debug_lines) < MainMaxDebug
    /\ \E written \in {FrameWrite(logger, prev_size, MainSize, now)} :
       \E drawn \in {IF outcome = "io_draw"
                     THEN DrawUntil(written, stdout, 0) ELSE Draw(written, stdout)} :
          /\ outcome = "io_draw" => DirtyRowsOf(written) # {}
          /\ logger' = [logger EXCEPT !.frame_buffer = drawn.frame_buffer]
          /\ prev_size' = MainSize
          /\ stdout' = drawn.stdout
          /\ frame' = [shown |-> NonEmpty(logger),
                       body |-> FrameBody(NonEmpty(logger), written),
                       printed |-> drawn.printed,
                       same |-> FrameSame(logger.frame_buffer, written),
                       resized |-> MainSize # prev_size]
    /\ main' = RunMatch(main, FrameResult(outcome))
    /\ last' = Call("frame", <<>>, FrameResult(outcome))
    /\ UNCHANGED <<lock, producers, pushed, poisoned>>

\* An iteration with the lock poisoned: on_frame's modify_logger fails
\* before anything is written
RunFrameLockError ==
    /\ main.pc = "run"
    /\ poisoned
    /\ main' = RunMatch(main, LockError)
    /\ last' = Call("frame", <<>>, LockError)
    /\ UNCHANGED <<lock, logger, producers, prev_size, stdout, frame, pushed, poisoned>>

\* An iteration in which the closure of on_frame panics (a Style, an index
\* or a subtraction): the hook captures the message, the guard is dropped
\* while the thread unwinds, which poisons the mutex, and catch_unwind
\* returns Err. The Logger is out of reach from then on.
RunFramePanics ==
    /\ main.pc = "run"
    /\ ~poisoned
    /\ poisoned' = TRUE
    /\ main' = [main EXCEPT !.pc = "cleanup", !.ended = "panic",
                            !.panic = Some("frame"), !.hook = Some("frame")]
    /\ last' = Call("frame", <<>>, Ok("panic"))
    /\ UNCHANGED <<lock, logger, producers, prev_size, stdout, frame, pushed>>

\* run()'s Err arm: modify_logger(push "Error: ..")?, which returns from
\* run when the lock fails
RunReport ==
    LET r == ModifyLogger(poisoned, logger,
                 <<[logger EXCEPT !.debug_lines =
                        Append(@, "Error: " \o Unwrap(main.error))], "unit">>)
    IN /\ main.pc = "report"
       /\ logger' = r[1]
       /\ main' = IF r[2].ok THEN [main EXCEPT !.pc = "run", !.error = None]
                  ELSE [main EXCEPT !.pc = "cleanup", !.ended = "error",
                                    !.error = Some(r[2].val)]
       /\ last' = CallPre("report", Unwrap(main.error), r[2], LockPre(logger, r[2]))
       /\ UNCHANGED <<lock, producers, prev_size, stdout, frame, pushed, poisoned>>

\* What main() returns once cleanup() has returned Ok
MainResult(m) ==
    IF m.ended = "panic"
    THEN Err("Panic occurred: " \o UnwrapOr(m.hook, "unknown panic (no message captured)"))
    ELSE IF m.ended = "error" THEN Err(Unwrap(m.error))
    ELSE Ok("unit")

\* terminal::cleanup()? and the rest of main(): the first k steps of
\* cleanup succeed; with k below their number the next one fails and main
\* returns its error
MainCleanup(k) ==
    /\ main.pc = "cleanup"
    /\ main' = [main EXCEPT
           !.pc = "returned", !.cleanup = TRUE,
           !.terminal = @ \ StepsDone(CleanupSteps, k),
           !.result = Some(IF k = Len(CleanupSteps) THEN MainResult(main) ELSE IoError)]
    /\ last' = Call("cleanup", <<>>, IF k = Len(CleanupSteps) THEN Ok("unit") ELSE IoError)
    /\ UNCHANGED <<lock, logger, producers, prev_size, stdout, frame, pushed, poisoned>>

\* push_log(name, log), reporting its own error
MainPushLog ==
    /\ Len(logger.history) < MainMaxLines
    /\ LockPushLog(<<"build">>, MkLog("x", StatusOk))

NextMain ==
    \/ \E k \in 0..Len(CaptureSteps) : MainCapture(k)
    \/ \E outcome \in FrameOutcomes : \E now \in FrameNows(logger) : RunFrame(outcome, now)
    \/ RunFrameLockError
    \/ RunFramePanics
    \/ RunReport
    \/ \E k \in 0..Len(CleanupSteps) : MainCleanup(k)
    \/ MainPushLog
    \/ ApiClosurePanics(ById(0))

SpecMain == Init /\ [][NextMain]_vars

-----------------------------------------------------------------------------
(* The layout of a frame under the time cursor: SpecLayout                 *)
(*                                                                         *)
(* A producer creates up to three groups, the first with set_header or     *)
(* all with their first push_log, and pushes lines, each with its own      *)
(* text, to them;                                                          *)
(* the time cursor moves back and forth, which hides the groups whose      *)
(* lines all come later; the render loop draws frames on a terminal of     *)
(* eight rows. A group whose last visible line is a finished Error    *)
(* line is rendered expanded, the others collapsed: the first group gets   *)
(* lines of both kinds, the others finished Error lines.                   *)

\* SpecLayout: total number of lines pushed
LayMaxLines == 3

LayNames == <<"a", "b", "c">>
LaySize == [cols |-> 4, rows |-> 8]
LayShifts == {-1, 1}

\* The text of the line that gets LineId id
LineTexts == <<"l0", "l1", "l2", "l3", "l4", "l5", "l6", "l7">>
LineText(id) == IF id < Len(LineTexts) THEN LineTexts[id + 1] ELSE "l"

\* push_log(name, log) on one of the groups that exist or on the next one
LayPushLog(k, status) ==
    LET r == PushLogHelper(logger, <<LayNames[k]>>,
                           MkLog(LineText(logger.next_line_id), status))
    IN /\ k <= Len(logger.groups.data) + 1
       /\ Len(logger.history) < LayMaxLines
       /\ logger' = r[1]
       /\ last' = Call("push_log", <<LayNames[k]>>, r[2])
       /\ pushed' = pushed \o NewLineIds(logger, r[1])
       /\ UNCHANGED <<lock, poisoned, main, producers, prev_size, stdout, frame>>

\* The create_group closure of set_header or log (lib.rs:393, 403) before
\* anything else: a first group with no line yet
LayCreateGroup ==
    /\ Len(logger.groups.data) = 0
    /\ ApiCreateGroup(<<LayNames[1]>>)

NextLayout ==
    \/ LayCreateGroup
    \/ \E st \in Statuses : LayPushLog(1, st)
    \/ \E k \in 2..Len(LayNames) : LayPushLog(k, Finished(StatusError))
    \/ \E shift \in LayShifts : ApiShiftHistory(shift)
    \/ \E now \in FrameNows(logger) : ApiFrame(LaySize, now)

SpecLayout == Init /\ [][NextLayout]_vars

-----------------------------------------------------------------------------
(* The holds of the Logger mutex, step by step (SpecHold).  Every call is a *)
(* sequence of modify_logger calls; each of them waits for the mutex, runs  *)
(* its closure with the guard and drops the guard when it returns.          *)

HoldMaxLines == 1
HoldMaxDebug == 1
HoldPath == <<"build">>

\* The modify_logger closures each call runs, in order
Steps(op) ==
    CASE op = "debug" -> <<"debug">>
      [] op = "push_log" -> <<"push">>
      [] op = "log" -> <<"read", "push">>
      [] op = "modify_group" -> <<"panic">>
      [] op = "frame" -> <<"frame">>
ProducerOps == {"debug", "push_log", "log", "modify_group"}
\* The calls that pass their error to report_errors, and run()'s Err arm
Reporting == {"debug", "push_log", "log", "frame"}

\* A guard that outlives modify_logger
UnlockKept(holder, t) == holder
\* What happens to the mutex when modify_logger returns or unwinds: the
\* guard is a local of modify_logger and is dropped
Unlock(holder, t) == None

\* The calls in progress that will still push a line / a debug line
PendingPush(at) == Cardinality({t \in Threads : \E i \in 1..Len(at[t].todo) :
                                                   at[t].todo[i] = "push"})
PendingDebug(at) == Cardinality({t \in Threads : \E i \in 1..Len(at[t].todo) :
                                                    at[t].todo[i] \in {"debug", "report"}})

\* A thread enters a call: producers call the API, the render thread
\* starts an iteration of run()'s loop
HoldCall(t, op) ==
    /\ lock.at[t] = ThreadIdle
    /\ (t = "render") = (op = "frame")
    /\ op \in {"push_log", "log"} =>
           Len(logger.history) + PendingPush(lock.at) < HoldMaxLines
    /\ op = "debug" =>
           Len(logger.debug_lines) + PendingDebug(lock.at) < HoldMaxDebug
    /\ lock' = [lock EXCEPT !.at[t] = [op |-> op, todo |-> Steps(op), pc |-> "wait"]]
    /\ last' = Call("call", <<t, op>>, Ok("unit"))
    /\ UNCHANGED <<logger, producers, prev_size, stdout, frame, pushed, poisoned, main>>

\* Where a call goes when lock() returned the poison error: a failed step
\* of a reporting call is followed by the report, a failed report by
\* nothing (.ok()), and run() returns when its report fails (`?`)
AfterLockError(c) ==
    IF Head(c.todo) = "report"
    THEN IF c.op = "frame" THEN [ThreadIdle EXCEPT !.op = "ended"] ELSE ThreadIdle
    ELSE IF c.op \in Reporting THEN [c EXCEPT !.todo = <<"report">>]
    ELSE ThreadIdle

\* logger().lock() in modify_logger (lib.rs:298): the thread gets the mutex
\* when no thread holds it; a poisoned mutex gives the error and the guard
\* inside it is dropped at once
HoldLock(t) ==
    /\ lock.at[t].pc = "wait"
    /\ lock.holder = None
    /\ lock' = IF poisoned
               THEN [lock EXCEPT !.at[t] = AfterLockError(@)]
               ELSE [lock EXCEPT !.holder = Some(t), !.at[t].pc = "held"]
    /\ last' = Call("lock", <<t, Head(lock.at[t].todo)>>,
                    IF poisoned THEN LockError ELSE Ok("unit"))
    /\ UNCHANGED <<logger, producers, prev_size, stdout, frame, pushed, poisoned, main>>

\* The Logger after the closure of a step
StepLogger(l, step, size, now, term) ==
    CASE step = "debug" -> [l EXCEPT !.debug_lines = Append(@, "d")]
      [] step = "report" -> [l EXCEPT !.debug_lines = Append(@, "Error: io error")]
      [] step = "read" -> CreateGroup(l, HoldPath)[1]
      [] step = "push" -> PushLogHelper(l, HoldPath, MkLog("x", StatusOk))[1]
      [] step = "key" -> DeselectAll(l)
      [] step = "panic" -> l
      [] step = "frame" ->
             [l EXCEPT !.frame_buffer =
                           Draw(FrameWrite(l, prev_size, size, now), term).frame_buffer]

\* What the render thread finds after the closure of on_frame: no event,
\* a key event (its handler is one more modify_logger), or an I/O error of
\* event::poll (run()'s Err arm reports it)
PollOutcomes == {"continue", "key", "io_poll"}
AfterFrame(outcome) ==
    CASE outcome = "continue" -> <<>>
      [] outcome = "key" -> <<"key">>
      [] outcome = "io_poll" -> <<"report">>

\* The mutex and the thread once modify_logger has returned, with the
\* steps `rest` of the call still to do
Returned(lk, t, rest) ==
    [holder |-> Unlock(lk.holder, t),
     at |-> [lk.at EXCEPT ![t] = IF rest = <<>> THEN ThreadIdle
                                 ELSE [@ EXCEPT !.todo = rest, !.pc = "wait"]]]

\* The closure of the step runs with the guard and modify_logger returns
\* (or unwinds, when the closure panics, which poisons the mutex)
HoldClosure(t, outcome, now) ==
    LET c == lock.at[t]
        step == Head(c.todo)
        rest == IF step = "frame" THEN AfterFrame(outcome) ELSE Tail(c.todo)
    IN /\ c.pc = "held"
       /\ lock.holder = Some(t)
       /\ step # "frame" => outcome = "continue"
       /\ (step = "frame" /\ outcome = "io_poll") =>
              Len(logger.debug_lines) + PendingDebug(lock.at) < HoldMaxDebug
       /\ \E after \in {StepLogger(logger, step, MainSize, now, stdout)} :
             /\ logger' = after
             /\ pushed' = pushed \o NewLineIds(logger, after)
       /\ IF step = "frame"
          THEN /\ prev_size' = MainSize
               /\ stdout' = Draw(FrameWrite(logger, prev_size, MainSize, now), stdout).stdout
          ELSE UNCHANGED <<prev_size, stdout>>
       /\ poisoned' = (poisoned \/ step = "panic")
       /\ lock' = Returned(lock, t, rest)
       /\ last' = Call("closure", <<t, step>>, Ok("unit"))
       /\ UNCHANGED <<producers, frame, main>>

NextHold ==
    \/ \E t \in Threads, op \in ProducerOps \cup {"frame"} : HoldCall(t, op)
    \/ \E t \in Threads : HoldLock(t)
    \/ \E t \in Threads, outcome \in PollOutcomes, now \in FrameNows(logger) :
           HoldClosure(t, outcome, now)

SpecHold == Init /\ [][NextHold]_vars

\* The steps of HoldClosure(t, ..), told by what they do to the mutex and
\* to the thread
HoldReturns(t) ==
    /\ lock.at[t].pc = "held"
    /\ \E rest \in {<<>>, Tail(lock.at[t].todo)} \cup {AfterFrame(o) : o \in PollOutcomes} :
           lock' = Returned(lock, t, rest)

\* A fair mutex: a thread that waits gets the lock when it is free again
\* and again; a closure that runs returns
HoldFairness ==
    \A t \in Threads : SF_vars(HoldLock(t)) /\ WF_lock(HoldReturns(t))

SpecHoldFair == SpecHold /\ HoldFairness

-----------------------------------------------------------------------------
(* The events of the render thread: SpecInput                              *)
(*                                                                         *)
(* on_frame's handlers of the character keys and of the mouse (lib.rs:697- *)
(* 706 and 734-763), with frames drawn between the events, on two groups   *)
(* of which the first can be one that set_header created and that has no   *)
(* line yet. The mouse handlers read the framebuffer's maps in closures of *)
(* their own; nothing but the frame of the same thread writes those maps,  *)
(* so each handler is one action.                                          *)

\* SpecInput: total number of lines pushed, and the last row of the mouse
InMaxLines == 1
InMaxRow == 1

InNames == <<"a", "b">>
InSize == [cols |-> 4, rows |-> 8]
InColumns == {0, 4}
InKeys == {"1", "2", "A", "0"}

\* lib.rs group_char_to_index: the digit's value or the letter's offset
\* plus 10, minus 1
GroupCharToIndex(c) ==
    LET digits == <<"0", "1", "2", "3", "4", "5", "6", "7", "8", "9">>
        letters == <<"a", "b", "c", "d", "e", "f", "g", "h", "i", "j", "k", "l",
                     "m", "n", "o", "p", "q", "r", "s", "t", "u", "v", "w", "x",
                     "y", "z">>
        value == IF \E i \in 2..Len(digits) : digits[i] = c
                 THEN Some((CHOOSE i \in 2..Len(digits) : digits[i] = c) - 1)
                 ELSE IF \E i \in 1..Len(letters) : letters[i] = c
                 THEN Some((CHOOSE i \in 1..Len(letters) : letters[i] = c) - 1 + 10)
                 ELSE None
    IN IF IsSome(value) THEN Some(Unwrap(value) - 1) ELSE None

\* '0': modify_all_groups(|g| g.selected = !g.selected) (lib.rs:700)
ToggleAllSelected(l) ==
    LET ne == NonEmpty(l)
        shown == {ne[i] : i \in 1..Len(ne)}
    IN [l EXCEPT !.groups.data = [i \in 1..Len(@) |->
            IF (i - 1) \in shown THEN [@[i] EXCEPT !.selected = ~@] ELSE @[i]]]

\* KeyCode::Char(char) (lib.rs:697-706): <<the Logger afterwards, what
\* on_frame returns>>; the error of modify_group is dropped by .ok()
KeyChar(l, c) ==
    IF c = "0" THEN <<ToggleAllSelected(l), Ok(TRUE)>>
    ELSE LET index == GroupCharToIndex(c)
         IN IF IsSome(index)
            THEN <<ToggleSelected(l, ById(Unwrap(index)))[1], Ok(TRUE)>>
            ELSE <<l, Ok(TRUE)>>

ApiKeyChar(c) ==
    LET r == KeyChar(logger, c)
    IN /\ logger' = r[1]
       /\ last' = CallPre("key", c, r[2], SelectedFlags(logger))
       /\ UNCHANGED <<lock, poisoned, main, producers, prev_size, stdout, frame, pushed>>

\* MouseEventKind::ScrollUp / ScrollDown at a row (lib.rs:738-747): the
\* group index of the framebuffer is passed to scroll as a GroupId
MouseScroll(l, row, offset) ==
    LET group_id == LineToGroup(l.frame_buffer, row)
    IN IF IsNone(group_id) THEN <<l, Ok(TRUE)>>
       ELSE LET r == Scroll(l, ById(Unwrap(group_id)), offset)
            IN IF r[2].ok THEN <<r[1], Ok(TRUE)>> ELSE <<l, r[2]>>

ApiMouseScroll(row, offset) ==
    LET r == MouseScroll(logger, row, offset)
    IN /\ logger' = r[1]
       /\ last' = Call("mouse_scroll", <<row, offset>>, r[2])
       /\ UNCHANGED <<lock, poisoned, main, producers, prev_size, stdout, frame, pushed>>

\* MouseEventKind::Down at (row, column) (lib.rs:748-760)
ApiMouseClick(row, column) ==
    LET r == MouseDown(logger, row, column)
    IN /\ logger' = r[1]
       /\ last' = Call("mouse_click", <<row, column>>, r[2])
       /\ UNCHANGED <<lock, poisoned, main, producers, prev_size, stdout, frame, pushed>>

\* The create_group closure of set_header (lib.rs:403) before anything
\* else: a first group with no line yet
InCreateGroup ==
    /\ Len(logger.groups.data) = 0
    /\ ApiCreateGroup(<<InNames[1]>>)

\* push_log(name, log)
InPushLog(k, status) ==
    LET r == PushLogHelper(logger, <<InNames[k]>>, MkLog("x", status))
    IN /\ k <= Len(logger.groups.data) + 1
       /\ Len(logger.history) < InMaxLines
       /\ logger' = r[1]
       /\ last' = Call("push_log", <<InNames[k]>>, r[2])
       /\ pushed' = pushed \o NewLineIds(logger, r[1])
       /\ UNCHANGED <<lock, poisoned, main, producers, prev_size, stdout, frame>>

NextInput ==
    \/ InCreateGroup
    \/ \E k \in 1..Len(InNames) : InPushLog(k, Finished(StatusError))
    \/ \E now \in FrameNows(logger) : ApiFrame(InSize, now)
    \/ \E c \in InKeys : ApiKeyChar(c)
    \/ \E row \in 0..InMaxRow, offset \in ScrollOffsets : ApiMouseScroll(row, offset)
    \/ \E row \in 0..InMaxRow, column \in InColumns : ApiMouseClick(row, column)

SpecInput == Init /\ [][NextInput]_vars

-----------------------------------------------------------------------------
(* Claims about the producers (Spec)                                       *)

AllLines(l) ==
    UNION {{<<g, k>> : k \in 1..Len(l.groups.data[g].lines)} : g \in 1..Len(l.groups.data)}
TimestampAt(l, gk) == l.groups.data[gk[1]].lines[gk[2]].timestamp

\* C1: the LineIds given out by the successful push_line calls are, in the
\* order the calls held the lock, 0, 1, ..., n-1 (distinct, increasing, no
\* gap); the lines stored carry exactly these ids, one line each; and the
\* counter equals n, so a failed push_line has consumed none.
C1_LineIdsDenseInLockOrder ==
    /\ pushed = [i \in 1..Len(pushed) |-> i - 1]
    /\ logger.next_line_id = Len(pushed)
    /\ {TimestampAt(logger, gk) : gk \in AllLines(logger)} = 0..(Len(pushed) - 1)
    /\ Cardinality(AllLines(logger)) = Len(pushed)

\* Three lines pushed into two groups, and the last call a failed push_line
C1_Witness ==
    /\ Len(pushed) = 3
    /\ Len(logger.groups.data) = 2
    /\ \A g \in 1..2 : logger.groups.data[g].lines # <<>>
    /\ last.op = "push_line" /\ ~last.res.ok

\* C2: create_group is get-or-create. In every reachable state, a call on a
\* path not yet created returns the number of groups, appends exactly one
\* group (with that id and the joined path as header) and changes nothing
\* else; a call on a created path returns the id the index holds and
\* changes nothing at all. The index maps different paths to different ids,
\* each the index of its group in the store, and the id a call has just
\* returned is the one the index holds for its path.
C2_CreateGroupGetOrCreate ==
    LET tree == logger.path_to_group_id
        n == Len(logger.groups.data)
        created == HashTreePaths(tree)
    IN /\ \A path \in Paths :
            LET r == CreateGroup(logger, path)
                existing == HashTreeGet(tree, path)
            IN IF IsNone(existing)
               THEN /\ r[2] = n
                    /\ r[1].groups.data =
                         Append(logger.groups.data, [GroupNew(n) EXCEPT !.header = Join(path)])
                    /\ HashTreeGet(r[1].path_to_group_id, path) = Some(n)
                    /\ \A q \in created :
                         HashTreeGet(r[1].path_to_group_id, q) = HashTreeGet(tree, q)
                    /\ [r[1] EXCEPT !.groups = logger.groups,
                                    !.path_to_group_id = tree] = logger
               ELSE r[2] = Unwrap(existing) /\ r[1] = logger
       /\ \A p1 \in created : \A p2 \in created :
            p1 # p2 => HashTreeGet(tree, p1) # HashTreeGet(tree, p2)
       /\ \A p1 \in created :
            /\ Unwrap(HashTreeGet(tree, p1)) < n
            /\ At(logger.groups.data, Unwrap(HashTreeGet(tree, p1))).id = Unwrap(HashTreeGet(tree, p1))
            /\ At(logger.groups.data, Unwrap(HashTreeGet(tree, p1))).header = Join(p1)
       /\ Cardinality(created) = n
       /\ last.op = "create_group" => HashTreeGet(tree, last.arg) = Some(last.res.val)

\* create_group called again on the first path after a second group exists
\* and lines were pushed: it returned GroupId 0
C2_Witness ==
    /\ last.op = "create_group" /\ last.res.val = 0
    /\ Len(logger.groups.data) = 2
    /\ logger.groups.data[1].lines # <<>>

\* C3: a line logged with the status omitted (text "i") carries the status
\* of the line right before it in its group, or the default status when it
\* is the group's first line.
C3_OmittedStatusInheritsPrecedingLine ==
    \A g \in 1..Len(logger.groups.data) :
        LET lines == logger.groups.data[g].lines
        IN \A k \in 1..Len(lines) :
            lines[k].log.content = "i" =>
                lines[k].log.status =
                    IF k = 1 THEN StatusDefault ELSE lines[k - 1].log.status

\* The selectors that resolve: an index below the number of groups, or a
\* path some create_group call was given (its group carries the joined path
\* as header, which nothing changes here)
Resolves(l, sel) ==
    IF IsIdSelector(sel) THEN sel.id < Len(l.groups.data)
    ELSE \E g \in 1..Len(l.groups.data) : l.groups.data[g].header = Join(sel.path)

\* C19: push_line succeeds exactly when its selector resolves; with an index
\* at or past the number of groups, or a path never given to create_group
\* (a proper prefix or an extension of a created path included), it
\* returns a not-found error and leaves the Logger as it was: no LineId is
\* taken, no group and no history entry is added.
C19_PushLineUnresolvedChangesNothing ==
    [][last'.op = "push_line" =>
          /\ last'.res.ok <=> Resolves(logger, last'.arg)
          /\ ~Resolves(logger, last'.arg) =>
                /\ logger' = logger
                /\ pushed' = pushed
                /\ last'.res = IF IsIdSelector(last'.arg)
                               THEN Err("Group index out of bounds")
                               ELSE Err("Group not found")]_vars

\* A failed push_line on the path a, a proper prefix of the created path
\* a/b, after a line was pushed
C19_Witness ==
    /\ last.op = "push_line" /\ last.arg = ByPath(<<"a">>) /\ ~last.res.ok
    /\ Resolves(logger, ByPath(<<"a", "b">>)) /\ ~Resolves(logger, ByPath(<<"a">>))
    /\ logger.history # <<>>

-----------------------------------------------------------------------------
(* Claims about selection and history navigation (SpecNav)                 *)

\* Position k of the non-empty groups `ne` is the only one flagged in flags
OnlySelected(ne, flags, k) == \A j \in 1..Len(ne) : flags[ne[j] + 1] <=> (j = k)
NoneSelected(ne, flags) == \A j \in 1..Len(ne) : ~flags[ne[j] + 1]

\* C4 as amended: shift_selection wraps. When a non-empty group is selected,
\* a call moves every selection one position in the direction of delta
\* within the ordered non-empty groups, and the selection of the last
\* (delta >= 0) or first (delta < 0) non-empty group reappears at the other
\* end. With 5 non-empty groups: only group 3 selected gives only group 4,
\* only group 4 gives only group 5, and only group 5 gives only group 1.
C4_ShiftSelectionWraps ==
    last.op = "shift_selection" =>
        LET ne == NonEmpty(logger)
            n == Len(ne)
            now == SelectedFlags(logger)
            d == IF last.arg >= 0 THEN 1 ELSE -1
        IN (\E k \in 1..n : last.pre[ne[k] + 1]) =>
            /\ \A k \in 1..n : now[ne[((k - 1 + d) % n) + 1] + 1] = last.pre[ne[k] + 1]
            /\ (n = 5 /\ d = 1) =>
                /\ OnlySelected(ne, last.pre, 3) => OnlySelected(ne, now, 4)
                /\ OnlySelected(ne, last.pre, 4) => OnlySelected(ne, now, 5)
                /\ OnlySelected(ne, last.pre, 5) => OnlySelected(ne, now, 1)

\* shift_selection(+1) has just been called with only the last of 5
\* non-empty groups selected, and only the first one is selected now
C4_Witness ==
    /\ last.op = "shift_selection" /\ last.arg = 1
    /\ Len(NonEmpty(logger)) = 5
    /\ OnlySelected(NonEmpty(logger), last.pre, 5)
    /\ OnlySelected(NonEmpty(logger), SelectedFlags(logger), 1)

\* C4 as stated: shift_selection does not wrap. A call moves every
\* selection one position in the direction of delta and the selection
\* shifted past the last (delta >= 0) or first (delta < 0) non-empty group
\* is dropped: with 5 non-empty groups and only group 5 selected,
\* shift_selection(+1) leaves no group selected.
C4_Original_NoWrap ==
    last.op = "shift_selection" =>
        LET ne == NonEmpty(logger)
            n == Len(ne)
            now == SelectedFlags(logger)
            d == IF last.arg >= 0 THEN 1 ELSE -1
        IN (\E k \in 1..n : last.pre[ne[k] + 1]) =>
            /\ \A k \in 1..n :
                now[ne[k] + 1] = IF k - d \in 1..n THEN last.pre[ne[k - d] + 1] ELSE FALSE
            /\ (n = 5 /\ d = 1 /\ OnlySelected(ne, last.pre, 5)) => NoneSelected(ne, now)

\* C5: the time cursor is None or Some(L) with 0 <= L < history.len(), also
\* after later pushes; shift_history(delta) has set it to
\* clamp(c + delta, 0, history.len()), c being the cursor it found
\* (history.len() when live), and to None exactly when that is history.len().
C5_TimeCursorValid ==
    LET cursor == logger.groups.next_line
        len == Len(logger.history)
    IN /\ IsNone(cursor) \/ (0 <= Unwrap(cursor) /\ Unwrap(cursor) < len)
       /\ last.op = "shift_history" =>
            LET c == IF IsNone(last.pre) THEN len ELSE Unwrap(last.pre)
                target == IF c + last.arg < 0 THEN 0
                          ELSE IF c + last.arg > len THEN len ELSE c + last.arg
            IN /\ IsNone(cursor) <=> target = len
               /\ IsSome(cursor) => Unwrap(cursor) = target

\* A cursor stored by shift_history, and two lines pushed after it
C5_Witness ==
    /\ logger.groups.next_line = Some(1)
    /\ Len(logger.history) = 4
    /\ last.op = "push_log"


-----------------------------------------------------------------------------
(* Claims about the collapse policies (SpecPolicy)                         *)

GroupIds(l) == 0..(Len(l.groups.data) - 1)
GroupAt(l, g) == At(l.groups.data, g)
FinishedError(line) == line.log.status.finished /\ line.log.status.tag = Error
FinishedSuccess(line) == line.log.status.finished /\ line.log.status.tag = Success

\* C8: under expand_on_error with no override and a non-empty visible
\* window a group is collapsed exactly when its last visible line is NOT
\* (finished and Error); a group with an override has the override's value,
\* whatever its policy says.
C8_ExpandOnErrorVerdict ==
    \A g \in GroupIds(logger) :
        LET group == GroupAt(logger, g)
            view == GroupViewLines(logger, g)
        IN /\ (group.auto_collapse = ExpandOnError /\ IsNone(group.collapsed)
                    /\ view # <<>>)
                => (IsCollapsed(logger, g) <=> ~FinishedError(Last(view)))
           /\ IsSome(group.collapsed)
                => (IsCollapsed(logger, g) <=> Unwrap(group.collapsed))

\* An expand_on_error group whose last visible line is a finished Error while
\* the (hidden) last line is not: it is expanded.
C8_Witness ==
    \E g \in GroupIds(logger) :
        LET group == GroupAt(logger, g)
            view == GroupViewLines(logger, g)
        IN /\ group.auto_collapse = ExpandOnError
           /\ IsNone(group.collapsed)
           /\ view # <<>>
           /\ Len(view) < Len(group.lines)
           /\ FinishedError(Last(view))
           /\ ~FinishedError(Last(group.lines))
           /\ ~IsCollapsed(logger, g)

EmptyWindowExpandOnError(g) ==
    /\ GroupAt(logger, g).auto_collapse = ExpandOnError
    /\ IsNone(GroupAt(logger, g).collapsed)
    /\ GroupViewLines(logger, g) = <<>>

\* C9 (as the code behaves): under expand_on_error with no override a group
\* whose visible window is empty is collapsed.
C9_EmptyWindowCollapsed ==
    \A g \in GroupIds(logger) :
        EmptyWindowExpandOnError(g) => IsCollapsed(logger, g)

\* A group that has a finished Error line, hidden by the time cursor, and
\* is collapsed.
C9_Witness ==
    \E g \in GroupIds(logger) :
        /\ EmptyWindowExpandOnError(g)
        /\ GroupAt(logger, g).lines # <<>>
        /\ FinishedError(Last(GroupAt(logger, g).lines))
        /\ IsCollapsed(logger, g)

\* C9 as stated: an empty visible window evaluates as not collapsed.
C9_Original_EmptyWindowExpanded ==
    \A g \in GroupIds(logger) :
        EmptyWindowExpandOnError(g) => ~IsCollapsed(logger, g)

\* C10: under collapse_on_success with no override a group is collapsed
\* exactly when its last line visible under the time cursor is finished and
\* Success.
C10_CollapseOnSuccessLastVisible ==
    \A g \in GroupIds(logger) :
        LET group == GroupAt(logger, g)
            view == GroupViewLines(logger, g)
        IN (group.auto_collapse = CollapseOnSuccess /\ IsNone(group.collapsed))
            => (IsCollapsed(logger, g)
                    <=> (view # <<>> /\ FinishedSuccess(Last(view))))


-----------------------------------------------------------------------------
(* Claims about frames and scrolling (SpecFrame)                           *)

\* The body rows the last frame gave group g
WindowHeight(g) == UnwrapOr(MapGet(frame.body, g), 0)

\* C6: after every scroll call the stored offset, if any, is at least 0 and
\* below lines.len() - window_height, window_height being the body rows the
\* last frame gave the group: an offset that reaches that maximum is stored
\* as None, and none exceeds it.
C6_ScrollOffsetWithinWindow ==
    (last.op = "scroll" /\ last.res.ok) =>
        LET group == GroupAt(logger, last.arg.id)
            max == SatSub(Len(group.lines), WindowHeight(last.arg.id))
        IN IsSome(group.scroll) =>
            (0 <= Unwrap(group.scroll) /\ Unwrap(group.scroll) < max)

-----------------------------------------------------------------------------
(* Claims about the build/test scenario (SpecScenario)                     *)

\* The rows the last frame wrote for group g: 0 if it did not show the
\* group, 1 (the header) if it showed it collapsed, at least 2 (header and
\* footer) if it showed it expanded
RenderedRows(g) ==
    LET at == {i \in 1..Len(frame.shown) : frame.shown[i] = g}
        range == MapGet(logger.frame_buffer.group_to_lines,
                        (CHOOSE i \in at : TRUE) - 1)
    IN IF at = {} \/ IsNone(range) THEN 0
       ELSE Unwrap(range)[2] - Unwrap(range)[1] + 1

RenderedCollapsed(g) == RenderedRows(g) = 1
RenderedExpanded(g) == RenderedRows(g) >= 2

\* A frame has just been drawn, after all the pushes of the scenario
ScenarioFrame == last.op = "frame" /\ ScenarioPushed(logger)

\* C7 (as the code behaves): in every frame drawn after the scenario's
\* pushes, "build" is rendered collapsed while its fifth line (Success, not
\* finished) is its last line, and "test" is rendered expanded while its
\* finished Error line is its last line, whenever the frame shows them.
C7_BuildCollapsedTestExpanded ==
    ScenarioFrame =>
        /\ (BuildLines(logger) = ScenarioBuildLines /\ RenderedRows(0) > 0)
                => RenderedCollapsed(0)
        /\ (TestLines(logger) = 1 /\ RenderedRows(1) > 0)
                => RenderedExpanded(1)

\* The first frame after the scenario's six pushes, with the cursor live:
\* "build" collapsed, "test" expanded
C7_Witness ==
    /\ ScenarioFrame
    /\ Len(logger.history) = ScenarioBuildLines + 1
    /\ IsNone(logger.groups.next_line)
    /\ RenderedCollapsed(0)
    /\ RenderedExpanded(1)

\* C7 as stated: the frame after the scenario's pushes renders "build"
\* expanded.
C7_Original_BuildExpanded ==
    (ScenarioFrame /\ BuildLines(logger) = ScenarioBuildLines
        /\ IsNone(logger.groups.next_line))
    => RenderedExpanded(0)

-----------------------------------------------------------------------------
(* Claims about the user's toggle (SpecToggle)                             *)

\* The header rows of the last frame: the first row of each group written
HeaderRows(l) ==
    {l.frame_buffer.group_to_lines[ix][1] : ix \in DOMAIN l.frame_buffer.group_to_lines}

\* C11: applying the user's toggle twice in a row (Enter on the selected
\* groups, or a click on a header row inside the left margin) leaves every
\* group's effective collapsed state as it was before the first toggle,
\* whatever the override and the policy's verdict were: the first toggle
\* writes the opposite of the effective state as the override, the second
\* one writes the effective state itself.
C11_ToggleTwiceRestoresDisplay ==
    /\ \A g \in GroupIds(logger) :
          LET once == ToggleCollapsed(logger, ById(g))
              twice == ToggleCollapsed(once[1], ById(g))
          IN /\ once[2].ok /\ twice[2].ok
             /\ IsCollapsed(once[1], g) = ~IsCollapsed(logger, g)
             /\ Effective(twice[1]) = Effective(logger)
    /\ Effective(EnterKey(EnterKey(logger))) = Effective(logger)
    /\ \A row \in HeaderRows(logger) :
          LET once == MouseDown(logger, row, 0)
              twice == MouseDown(once[1], row, 0)
          IN /\ once[2].ok /\ twice[2].ok
             /\ Effective(once[1]) # Effective(logger)
             /\ Effective(twice[1]) = Effective(logger)

\* A second click in a row on the header of a group whose override was None
\* and that the policy showed expanded: it shows expanded again, now by
\* the override Some(false)
C11_Witness ==
    /\ last.op = "mouse_down" /\ IsSome(last.arg)
    /\ LET g == Unwrap(last.arg) + 1
       IN /\ last.pre.override[g] = Some(TRUE)
          /\ logger.groups.data[g].collapsed = Some(FALSE)
          /\ ~AutoCollapseFilter(logger.groups.data[g], logger.groups.next_line)
    /\ \E g \in GroupIds(logger) :
          At(logger.groups.data, g).selected /\ IsNone(At(logger.groups.data, g).collapsed)

\* C12: a toggle never writes None. It writes Some(not effective) whatever
\* the override was, so an override set by a toggle stays Some(..) for ever
\* and only alternates between Some(true) and Some(false); no other step
\* (a frame, which evaluates the policies, or a push) changes the field.
C12_ToggleNeverReturnsToAuto ==
    [][\A g \in GroupIds(logger) :
          LET before == At(logger.groups.data, g).collapsed
              after == At(logger.groups.data, g).collapsed'
          IN /\ IsSome(before) => IsSome(after)
             /\ after # before =>
                   /\ last'.op \in {"enter", "mouse_down"}
                   /\ after = Some(~IsCollapsed(logger, g))]_vars

\* A toggle has acted on a group whose override was Some(false)
C12_Witness ==
    /\ last.op \in {"enter", "mouse_down"}
    /\ \E g \in 1..Len(last.pre.override) :
          /\ last.pre.override[g] = Some(FALSE)
          /\ logger.groups.data[g].collapsed = Some(TRUE)

\* C12 as stated: the override cycles None -> Some(true) -> Some(false) ->
\* None under toggles, so a toggle on Some(false) returns the group to Auto
C12_Original_CycleBackToAuto ==
    last.op \in {"enter", "mouse_down"} =>
        \A g \in 1..Len(last.pre.override) :
            (/\ last.pre.override[g] = Some(FALSE)
             /\ logger.groups.data[g].collapsed # last.pre.override[g])
            => logger.groups.data[g].collapsed = None

-----------------------------------------------------------------------------
(* Claims about repeated frames (SpecRepaint)                              *)


\* C13: when a frame has been written and drawn, and the next frame, on a
\* terminal of the same size, gives every row the content it held, then no
\* row is dirty after the second frame is written and the draw step prints
\* nothing.
C13_SameFrameSameSizePrintsNothing ==
    (last.op = "frame" /\ frame.same /\ ~frame.resized) =>
        /\ frame.printed = {}
        /\ DirtyRowsOf(logger.frame_buffer) = {}

\* A second frame with the content of the first, on the same terminal, with
\* a group on it
C13_Witness ==
    /\ last.op = "frame" /\ frame.same /\ ~frame.resized
    /\ frame.shown # <<>>
    /\ frame.printed = {}

\* C13 as stated: identical content on every row is enough, whatever the
\* size of the terminal
C13_Original_SameFramePrintsNothing ==
    (last.op = "frame" /\ frame.same) => frame.printed = {}

-----------------------------------------------------------------------------
(* Claims about the footer (SpecFrame)                                     *)

\* The groups the last frame rendered expanded in tail-follow mode with
\* fewer body rows than they have visible lines, by index on the frame
TailWindows ==
    {ix \in DOMAIN logger.frame_buffer.group_to_group_lines :
        LET g == At(frame.shown, ix)
        IN /\ IsNone(At(logger.groups.data, g).scroll)
           /\ frame.body[g] > 0
           /\ frame.body[g] < Len(GroupViewLines(logger, g))}

\* The text of a footer whose duration starts at the time `start`
FooterSince(g, start) ==
    LET group == At(logger.groups.data, g)
        next_line == logger.groups.next_line
        finished == LastViewLineIsFinished(group, next_line)
        frozen == finished \/ IsSome(next_line)
        end == IF frozen THEN Last(GroupViewLines(logger, g)).time ELSE ClockMs(logger)
    IN BorderBottomLeft(group, next_line) \o " "
       \o BorderStyle(group, next_line, FormatDuration(SatSub(end, start), frozen))
       \o " " \o group.footer

\* The footer row of the group with index ix on the last frame
FooterRow(ix) ==
    logger.frame_buffer.lines[logger.frame_buffer.group_to_lines[ix][2] + 1].content

\* C14: the footer's duration is measured from the time of the group's
\* first visible line, also when the body window starts at a later line,
\* to the time of its last visible line (or to now while the group is live
\* and unfinished).
C14_FooterSinceFirstVisibleLine ==
    last.op = "frame" =>
        \A ix \in TailWindows :
            LET g == At(frame.shown, ix)
            IN FooterRow(ix) = FooterSince(g, GroupViewLines(logger, g)[1].time)

\* Three lines a second apart, one body row showing the last of them: the
\* footer says 2s
C14_Witness ==
    /\ last.op = "frame"
    /\ \E ix \in TailWindows :
          LET g == At(frame.shown, ix)
              lines == GroupViewLines(logger, g)
          IN /\ Len(lines) = 3 /\ frame.body[g] = 1
             /\ logger.frame_buffer.group_to_group_lines[ix][1] = 2
             /\ Last(lines).log.status.finished
             /\ FooterRow(ix) = FooterSince(g, lines[1].time)
             /\ FooterRow(ix) # FooterSince(g, lines[3].time)

\* C14 as stated: the duration is measured from the first line of the body
\* window that is displayed
C14_Original_FooterSinceWindowStart ==
    last.op = "frame" =>
        \A ix \in TailWindows :
            LET g == At(frame.shown, ix)
                first_shown == logger.frame_buffer.group_to_group_lines[ix][1]
            IN FooterRow(ix) = FooterSince(g, At(GroupViewLines(logger, g), first_shown).time)

-----------------------------------------------------------------------------
(* Claims about the API when the lock can fail (SpecLock)                  *)

\* The functions that hand their Result to report_errors, and the ones that
\* return it
SimplifiedApi == {"debug", "log", "push_log", "set_header"}
ResultApi == {"set_group_header", "set_group_footer", "collapse_group", "expand_group"}

\* The debug panel after report_errors recorded the error a call ran into
Reported(call) == Append(call.pre.debug, "Error: " \o Unwrap(call.pre.error))

C16_PoisonedLockIsRecorded ==
    (/\ last.op \in SimplifiedApi
     /\ poisoned
     /\ last.pre.error = Some(LockError.val)) =>
        /\ last.res = Ok("unit")
        /\ logger.debug_lines = Reported(last)

\* The Logger after the closure of setter `op` ran on the group with
\* GroupId g: one field of that group is written
AfterSetter(l, op, g) ==
    CASE op = "set_group_header" -> [l EXCEPT !.groups.data[g + 1].header = "H"]
      [] op = "set_group_footer" -> [l EXCEPT !.groups.data[g + 1].footer = "F"]
      [] op = "collapse_group" -> [l EXCEPT !.groups.data[g + 1].collapsed = Some(TRUE)]
      [] op = "expand_group" -> [l EXCEPT !.groups.data[g + 1].collapsed = Some(FALSE)]

\* The selectors that resolve: an index below the number of groups, or a
\* path that holds a value in the index
Indexed(l, sel) ==
    IF IsIdSelector(sel) THEN sel.id < Len(l.groups.data)
    ELSE sel.path \in HashTreePaths(l.path_to_group_id)

\* C20: with a selector that does not resolve, set_group_header,
\* set_group_footer, collapse_group and expand_group return a not-found
\* error and change nothing; with one that resolves they write that field
\* of that group and nothing else (with the lock poisoned they return the
\* lock error and change nothing).
C20_SettersChangeOnlyTheirField ==
    [][last'.op \in ResultApi =>
          LET sel == last'.arg
          IN IF poisoned
             THEN logger' = logger /\ last'.res = LockError
             ELSE IF ~Indexed(logger, sel)
             THEN /\ logger' = logger
                  /\ last'.res = IF IsIdSelector(sel)
                                 THEN Err("Group index out of bounds")
                                 ELSE Err("Group not found")
             ELSE /\ last'.res = Ok("unit")
                  /\ logger' = AfterSetter(logger, last'.op,
                         IF IsIdSelector(sel) THEN sel.id
                         ELSE Unwrap(HashTreeGet(logger.path_to_group_id, sel.path)))]_vars

\* set_group_footer by path on a group that has lines, a header set by
\* set_header and the override Some(true): only the footer is new
C20_Witness ==
    /\ last.op = "set_group_footer" /\ last.arg = ByPath(<<"build">>) /\ last.res.ok
    /\ logger.groups.data[1].footer = "F"
    /\ logger.groups.data[1].header = "h"
    /\ logger.groups.data[1].collapsed = Some(TRUE)
    /\ logger.groups.data[1].lines # <<>>

-----------------------------------------------------------------------------
(* Claims about main() and run() (SpecMain)                                *)

\* C17: whenever a frame returned an error, run() appends "Error: .." to the
\* debug panel and goes on to the next frame, and the loop ends only on the
\* quit key or on a panic. The code does not do this: with the lock
\* poisoned the append fails too and its `?` returns the error from run().
C17_FrameErrorsReportedLoopContinues ==
    /\ main.ended \in {"none", "quit", "panic"}
    /\ last.op = "report" =>
          /\ main.pc = "run"
          /\ logger.debug_lines = Append(last.pre.debug, "Error: " \o last.arg)

\* C18: once capture() succeeded, cleanup() has run when main() returns,
\* and after a panic in a frame main() returns the error that carries the
\* message the hook captured. The code does not do this: `cleanup()?`
\* returns cleanup's own error in place of the panic's, and the steps of
\* cleanup after the failed one are skipped.
C18_CleanupRunsAndPanicIsReturned ==
    (main.pc = "returned" /\ main.ended # "none") =>
        /\ main.cleanup
        /\ main.terminal = {}
        /\ main.ended = "panic" =>
              main.result = Some(Err("Panic occurred: " \o Unwrap(main.hook)))

-----------------------------------------------------------------------------
(* Claims about the layout of a frame (SpecLayout)                         *)

\* The lines of the group with GroupId g whose timestamp is below the time
\* cursor; all of them when the cursor is None
LinesBefore(l, g) ==
    LET lines == At(l.groups.data, g).lines
        Before(line) == IsNone(l.groups.next_line)
                        \/ line.timestamp < Unwrap(l.groups.next_line)
    IN SelectSeq(lines, Before)

\* The GroupIds, in order, of the groups with a line below the time cursor
GroupsBefore(l) ==
    LET ids == [i \in 1..Len(l.groups.data) |-> i - 1]
        Has(g) == LinesBefore(l, g) # <<>>
    IN SelectSeq(ids, Has)

\* The rows of the framebuffer written for the group with display index ix
\* between its header and its footer
BodyRowsOf(fb, ix) ==
    LET range == MapGet(fb.group_to_lines, ix)
    IN IF IsNone(range) THEN {}
       ELSE {r \in 0..(Len(fb.lines) - 1) :
                Unwrap(range)[1] < r /\ r < Unwrap(range)[2]}

\* The texts of the lines of the group with GroupId g that are at or after
\* the time cursor
HiddenTexts(l, g) ==
    LET lines == At(l.groups.data, g).lines
    IN {lines[i].log.content : i \in {j \in 1..Len(lines) :
            IsSome(l.groups.next_line)
            /\ lines[j].timestamp >= Unwrap(l.groups.next_line)}}

\* C21: with the time cursor at Some(L) the visible lines of every group
\* (view_lines, which rendering, the non-empty filter and selection use) are
\* its lines with timestamp < L, and all its lines when the cursor is None;
\* a frame renders exactly the groups that have such a line, and none of
\* its body rows shows a line with timestamp >= L.
C21_ViewIsLinesBeforeCursor ==
    /\ \A g \in 0..(Len(logger.groups.data) - 1) :
          GroupViewLines(logger, g) = LinesBefore(logger, g)
    /\ NonEmpty(logger) = GroupsBefore(logger)
    /\ last.op = "frame" =>
          LET fb == logger.frame_buffer
              shown == GroupsBefore(logger)
          IN /\ frame.shown = shown
             /\ DOMAIN fb.group_to_lines = 0..(Len(shown) - 1)
             /\ \A ix \in 0..(Len(shown) - 1) : \A r \in BodyRowsOf(fb, ix) :
                   \A text \in HiddenTexts(logger, At(shown, ix)) :
                      At(fb.lines, r).content
                         # StyleLogLine(At(logger.groups.data, At(shown, ix)),
                                        logger.groups.next_line, ix, text)

\* A frame drawn with the cursor in the past: it shows an expanded group
\* with a body row while one of the group's lines is hidden, and leaves out
\* a group whose lines all come later
C21_Witness ==
    /\ last.op = "frame"
    /\ IsSome(logger.groups.next_line)
    /\ Len(frame.shown) < Len(logger.groups.data)
    /\ \E ix \in 0..(Len(frame.shown) - 1) :
          /\ BodyRowsOf(logger.frame_buffer, ix) # {}
          /\ HiddenTexts(logger, At(frame.shown, ix)) # {}

\* The rows of the framebuffer that hold the header the style gives the
\* group with GroupId g when it is asked for it under the index `index`
HeaderRowsAs(l, g, index) ==
    LET group == At(l.groups.data, g)
    IN {r \in 0..(Len(l.frame_buffer.lines) - 1) :
           At(l.frame_buffer.lines, r).content
              = StyleHeader(group, l.groups.next_line, index, group.header, ClockMs(l))}

\* C22: in every frame the index in a group's header glyph, and the index
\* recorded in the framebuffer for the group's rows, is the group's GroupId,
\* whichever other groups are hidden. The code does not do this: on_frame
\* numbers the groups by their position among the non-empty ones.
C22_DisplayIndexIsGroupId ==
    last.op = "frame" =>
        \A i \in 1..Len(frame.shown) :
            \E r \in HeaderRowsAs(logger, frame.shown[i], frame.shown[i]) :
                MapGet(logger.frame_buffer.line_to_group, r) = Some(Some(frame.shown[i]))

-----------------------------------------------------------------------------
(* Claims about the Esc key and an empty selection (SpecNav)               *)

\* C23: after the Esc key has been handled no group is selected, whatever
\* the time cursor is and whichever groups have no visible line. The code
\* does not do this: the closure runs over nonempty_mut() only, so a
\* selected group that is hidden stays selected.
C23_EscDeselectsEveryGroup ==
    last.op = "esc" =>
        \A g \in 1..Len(logger.groups.data) : ~logger.groups.data[g].selected

\* The groups without a visible line
Hidden(l) == {g \in 0..(Len(l.groups.data) - 1) : GroupViewLines(l, g) = <<>>}

\* C26: when no non-empty group is selected, shift_selection(delta) selects
\* the first non-empty group if delta >= 0 and the last one if delta < 0,
\* and only that one among the non-empty groups; the flags of the hidden
\* groups stay; with no non-empty group nothing changes; and in every state
\* the result depends on the sign of delta only.
C26_ShiftSelectionFromNothingSelected ==
    /\ last.op = "shift_selection" =>
          LET ne == NonEmpty(logger)
              now == SelectedFlags(logger)
          IN /\ (ne # <<>> /\ NoneSelected(ne, last.pre)) =>
                    /\ OnlySelected(ne, now, IF last.arg >= 0 THEN 1 ELSE Len(ne))
                    /\ \A g \in Hidden(logger) : now[g + 1] = last.pre[g + 1]
             /\ ne = <<>> => now = last.pre
    /\ ShiftSelection(logger, 5) = ShiftSelection(logger, 1)
    /\ ShiftSelection(logger, 0) = ShiftSelection(logger, 1)
    /\ ShiftSelection(logger, -5) = ShiftSelection(logger, -1)

\* shift_selection(-1) has just been called with three non-empty groups,
\* none of them selected, and a selected hidden group: only the third
\* non-empty group is selected now
C26_Witness ==
    /\ last.op = "shift_selection" /\ last.arg = -1
    /\ Len(NonEmpty(logger)) = 3
    /\ NoneSelected(NonEmpty(logger), last.pre)
    /\ \E g \in Hidden(logger) : last.pre[g + 1]
    /\ OnlySelected(NonEmpty(logger), SelectedFlags(logger), 3)

-----------------------------------------------------------------------------
(* Claims about a frame as a whole (SpecFrame)                             *)

\* Everything of the Logger but its framebuffer
LoggerData(l) == [l EXCEPT !.frame_buffer = FramebufferDefault]

\* C24: a frame is one step relative to the producers. It changes nothing
\* of the Logger but the framebuffer, and when it ends every row of the
\* framebuffer and of the terminal holds what the layout of that one state
\* of the groups gives it: no push, header, footer or collapse change has
\* taken effect between the layout and the draw.
C24_FrameIsOneLockHold ==
    [][last'.op = "frame" =>
          /\ LoggerData(logger') = LoggerData(logger)
          /\ \A rows \in {FrameRows(logger', prev_size', ClockMs(logger'))} :
                \A i \in 1..Len(rows) :
                   /\ logger'.frame_buffer.lines[i].content = rows[i].content
                   /\ stdout'[i] = rows[i].content]_vars

\* A frame has just been drawn with two groups shown, one of them expanded
\* with a body row, and it printed rows
C24_Witness ==
    /\ last.op = "frame"
    /\ Len(frame.shown) = 2
    /\ \E g \in DOMAIN frame.body : frame.body[g] > 0
    /\ frame.printed # {}

\* The number of rows the framebuffer recorded for the group with display
\* index ix in the last frame
RowsOf(fb, ix) ==
    LET range == MapGet(fb.group_to_lines, ix)
    IN IF IsNone(range) THEN 0 ELSE Unwrap(range)[2] - Unwrap(range)[1] + 1

\* The number of body rows the framebuffer recorded for that group: the rows
\* written with a line index
BodyCount(fb, ix) ==
    LET range == MapGet(fb.group_to_group_lines, ix)
    IN IF IsNone(range) THEN 0 ELSE Unwrap(range)[2] - Unwrap(range)[1] + 1

\* The rows a frame shares out: E = content_rows - collapsed_count, k the
\* number of expanded groups, and per display index whether the group is
\* collapsed and, if not, its position among the expanded groups
Shares(l, size) ==
    LET groups == NonEmpty(l)
        collapsed == {i \in 1..Len(groups) : IsCollapsed(l, groups[i])}
    IN [E |-> ContentRows(l, size).content_rows - Cardinality(collapsed),
        k |-> Len(groups) - Cardinality(collapsed),
        collapsed |-> {i - 1 : i \in collapsed},
        rank |-> [ix \in 0..(Len(groups) - 1) |->
                     Cardinality({j \in 1..ix : j \notin collapsed})]]

\* The share of the expanded group with display index ix
Share(sh, ix) ==
    (sh.E \div sh.k) + (IF sh.rank[ix] < sh.E % sh.k THEN 1 ELSE 0)

C28_FrameFillsTerminal ==
    (last.op = "frame" /\ prev_size.rows >= 3) =>
        LET fb == logger.frame_buffer
            content_rows == ContentRows(logger, prev_size).content_rows
            group_rows == {r \in DOMAIN fb.line_to_group : IsSome(fb.line_to_group[r])}
        IN /\ Cardinality(group_rows) <= content_rows
           /\ Cardinality(DOMAIN fb.line_to_group) = prev_size.rows
           /\ At(fb.lines, content_rows).content = ScrollBarRow(logger, prev_size).content
           /\ At(fb.lines, content_rows + 1).content = HistoryRow(logger, prev_size).content
           /\ At(fb.lines, content_rows + 2).content
                 = MenuRow(logger, NonEmpty(logger)).content

\* The content of the last body row the framebuffer holds for the group
\* with display index ix, which has body rows
LastBodyRow(fb, ix) == At(fb.lines, Unwrap(MapGet(fb.group_to_lines, ix))[2] - 1).content

\* C29: for an expanded group with a manual scroll offset s the body window
\* starts at visible line s, and its last row is an ellipsis exactly when
\* the window [s, s + budget) does not reach the end of the visible lines;
\* when it reaches the end the last row shows the line itself. The code
\* does not do this: the last row is an ellipsis whenever an offset is set.
C29_EllipsisOnlyWhenMoreFollows ==
    last.op = "frame" =>
        \A ix \in 0..(Len(frame.shown) - 1) :
            LET fb == logger.frame_buffer
                group == At(logger.groups.data, At(frame.shown, ix))
                lines == ViewLines(group.lines, logger.groups.next_line)
                budget == BodyCount(fb, ix)
                s == Unwrap(group.scroll)
                Styled_(text) == StyleLogLine(group, logger.groups.next_line, ix, text)
            IN (IsSome(group.scroll) /\ budget > 0) =>
                  /\ Unwrap(MapGet(fb.group_to_group_lines, ix))[1] = s
                  /\ IF s + budget < Len(lines)
                     THEN LastBodyRow(fb, ix) = Styled_("...")
                     ELSE LastBodyRow(fb, ix)
                             = Styled_(IF s + budget - 1 < Len(lines)
                                       THEN At(lines, s + budget - 1).log.content
                                       ELSE "")

-----------------------------------------------------------------------------
(* Claims about a frame after a resize (SpecRepaint)                       *)

\* C30 (as the code behaves): when the terminal size differs from the size
\* of the previous frame, the content of every row the framebuffer holds is
\* cleared and the row flagged dirty before the frame is written, so every
\* row of the frame that the framebuffer already held is repainted, also
\* when its new content is blank or what it held before. A row of the
\* frame beyond those is repainted exactly when its content is not empty.
C30_ResizeRepaintsStoredRows ==
    [][(last'.op = "frame" /\ prev_size' # prev_size) =>
          LET stored == Len(logger.frame_buffer.lines)
              fb == logger'.frame_buffer
              rows == DOMAIN fb.line_to_group
          IN \A r \in rows :
                /\ r \in frame'.printed <=> (r < stored \/ At(fb.lines, r).content # "")
                /\ r \in frame'.printed => stdout'[r + 1] = At(fb.lines, r).content
                /\ ~At(fb.lines, r).changed]_vars

\* A frame after a resize that repainted a blank row
C30_Witness ==
    /\ last.op = "frame"
    /\ frame.resized
    /\ \E r \in frame.printed :
          /\ r \in DOMAIN logger.frame_buffer.line_to_group
          /\ At(logger.frame_buffer.lines, r).content = ""

\* C30 as stated: every row of a frame drawn after a resize is repainted.
C30_Original_ResizeRepaintsEveryRow ==
    (last.op = "frame" /\ frame.resized) =>
        \A r \in DOMAIN logger.frame_buffer.line_to_group : r \in frame.printed

\* The mutex is held by a thread exactly while that thread is inside a
\* closure of modify_logger
HeldOnlyInClosure ==
    \A t \in Threads : (lock.holder = Some(t)) = (lock.at[t].pc = "held")

\* C25: a thread holds the Logger mutex exactly for the duration of each
\* modify_logger closure it runs: it has released it when the call returns
\* (also when the call fails) and never waits for it while holding it (not
\* for the report of an error, not between the two steps of log); with a
\* fair mutex every call of a producer and every frame that was started
\* completes.
C25_LockReleasedAndCallsComplete ==
    /\ [](HeldOnlyInClosure)
    /\ \A t \in Threads : (lock.at[t].pc # "idle") ~> (lock.at[t].pc = "idle")

\* A producer runs the second closure of log while the other producer and
\* the render thread, which has an error to report, wait for the mutex
C25_Witness ==
    /\ lock.holder = Some("p1")
    /\ lock.at["p1"].op = "log" /\ lock.at["p1"].todo = <<"push">>
    /\ lock.at["p2"].pc = "wait"
    /\ lock.at["render"].pc = "wait" /\ lock.at["render"].todo = <<"report">>

-----------------------------------------------------------------------------
(* Claims about the framebuffer and the terminal (SpecFrame)               *)

\* The content set_line compares row i (from 1) against in a frame: what
\* the row stored before the frame, nothing when the row is new or the
\* frame began with Framebuffer::clear
StoredBefore(old, resized, i) ==
    IF i <= Len(old) /\ ~resized THEN old[i].content ELSE ""

\* C31: with the terminal as an array of rows, blank at start and changed
\* only by the rows a frame emits: after a frame every row it wrote shows
\* on the terminal the content the framebuffer stores for it, which is the
\* content written; the rows emitted are the rows flagged, which are the
\* rows whose written content differs from the stored content and, after a
\* resize, the rows that clear() flagged; no flag is left set; the other
\* rows of the terminal are as before; and the row storage has grown to
\* the rows written when it was shorter.
C31_TerminalShowsBufferAfterFrame ==
    [][last'.op = "frame" =>
          \A rows \in {FrameRows(logger, prev_size', ClockMs(logger))} :
             LET old == logger.frame_buffer.lines
                 new == logger'.frame_buffer.lines
                 resized == prev_size' # prev_size
                 flagged == {i \in 1..Len(new) :
                                \/ resized /\ i <= Len(old)
                                \/ /\ i <= Len(rows)
                                   /\ rows[i].content # StoredBefore(old, resized, i)}
             IN /\ Len(new) = Max(Len(old), Len(rows))
                /\ \A i \in 1..Len(rows) :
                      /\ new[i].content = rows[i].content
                      /\ stdout'[i] = new[i].content
                /\ frame'.printed = {i - 1 : i \in flagged}
                /\ \A i \in 1..Len(new) : ~new[i].changed
                /\ \A i \in 1..Len(stdout) :
                      i \notin flagged => stdout'[i] = stdout[i]]_vars

\* A frame on a terminal of the same size as before has emitted some rows
\* and left other rows it wrote alone
C31_Witness ==
    /\ last.op = "frame"
    /\ ~frame.resized
    /\ frame.printed # {}
    /\ \E i \in 1..Len(logger.frame_buffer.lines) :
          /\ (i - 1) \notin frame.printed
          /\ logger.frame_buffer.lines[i].content # ""

-----------------------------------------------------------------------------
(* Claims about the events of the render thread (SpecInput)                *)

\* The group that the last frame rendered on a row: the row's group index
\* counts the groups that frame showed
RenderedOn(l, f, row) ==
    LET ix == LineToGroup(l.frame_buffer, row)
    IN IF IsNone(ix) THEN None ELSE Some(f.shown[Unwrap(ix) + 1])

\* Everything of a group but the field named
GroupBut(group, field) ==
    CASE field = "selected" -> [group EXCEPT !.selected = FALSE]
      [] field = "collapsed" -> [group EXCEPT !.collapsed = None]
      [] field = "scroll" -> [group EXCEPT !.scroll = None]

\* The Logger changed in nothing but the named field of group g
OnlyGroupField(l, after, g, field) ==
    /\ Len(after.groups.data) = Len(l.groups.data)
    /\ [after EXCEPT !.groups.data = l.groups.data] = l
    /\ \A h \in 1..Len(l.groups.data) :
          IF h = g + 1
          THEN GroupBut(after.groups.data[h], field) = GroupBut(l.groups.data[h], field)
          ELSE after.groups.data[h] = l.groups.data[h]

\* C32: a mouse event on row r acts on the group the last frame rendered
\* on row r. A scroll changes nothing but that group's scroll offset; a
\* click on that group's header row at a column below 4 inverts that
\* group's effective collapsed state and changes nothing else; any other
\* click on its rows leaves exactly that group selected; an event on a row
\* that shows no group changes nothing.
C32_MouseActsOnGroupOfRow ==
    [][last'.op \in {"mouse_scroll", "mouse_click"} =>
          LET row == last'.arg[1]
              g == RenderedOn(logger, frame, row)
          IN IF IsNone(g) THEN logger' = logger
             ELSE IF last'.op = "mouse_scroll"
             THEN OnlyGroupField(logger, logger', Unwrap(g), "scroll")
             ELSE IF /\ last'.arg[2] < 4
                     /\ LineToGroup(logger.frame_buffer, row - 1)
                            # LineToGroup(logger.frame_buffer, row)
             THEN /\ OnlyGroupField(logger, logger', Unwrap(g), "collapsed")
                  /\ IsCollapsed(logger', Unwrap(g)) = ~IsCollapsed(logger, Unwrap(g))
             ELSE \A h \in 1..Len(logger.groups.data) :
                     logger'.groups.data[h].selected = (h = Unwrap(g) + 1)]_vars

\* The alphabet of the group keys: 1-9, then a-z
GroupAlphabet ==
    <<"1", "2", "3", "4", "5", "6", "7", "8", "9",
      "a", "b", "c", "d", "e", "f", "g", "h", "i", "j", "k", "l", "m",
      "n", "o", "p", "q", "r", "s", "t", "u", "v", "w", "x", "y", "z">>

\* index_to_group_char and group_char_to_index are inverse on the indices
\* 0..34 and on the alphabet
CharIndexInverse ==
    /\ \A d \in 0..(Len(GroupAlphabet) - 1) :
          /\ IndexToGroupChar(d) = Some(GroupAlphabet[d + 1])
          /\ GroupCharToIndex(GroupAlphabet[d + 1]) = Some(d)
    /\ IndexToGroupChar(Len(GroupAlphabet)) = None
    /\ GroupCharToIndex("0") = None /\ GroupCharToIndex("A") = None

\* A key of the alphabet toggles the selected flag of the group whose
\* GroupId is the key's position minus 1 and changes nothing else; it
\* changes nothing when there is no such group or the key is no group key;
\* no error is returned
KeyTogglesItsGroup ==
    [][(last'.op = "key" /\ last'.arg # "0") =>
          /\ last'.res = Ok(TRUE)
          /\ IF \E p \in 1..Len(GroupAlphabet) :
                   GroupAlphabet[p] = last'.arg /\ p <= Len(logger.groups.data)
             THEN LET p == CHOOSE p \in 1..Len(GroupAlphabet) :
                               GroupAlphabet[p] = last'.arg
                  IN /\ OnlyGroupField(logger, logger', p - 1, "selected")
                     /\ logger'.groups.data[p].selected = ~logger.groups.data[p].selected
             ELSE logger' = logger]_vars

\* The key 0 toggles the selected flag of every group and changes nothing
\* else
KeyZeroTogglesAll ==
    [][(last'.op = "key" /\ last'.arg = "0") =>
          /\ last'.res = Ok(TRUE)
          /\ Len(logger'.groups.data) = Len(logger.groups.data)
          /\ [logger' EXCEPT !.groups.data = logger.groups.data] = logger
          /\ \A h \in 1..Len(logger.groups.data) :
                /\ logger'.groups.data[h].selected = ~logger.groups.data[h].selected
                /\ GroupBut(logger'.groups.data[h], "selected")
                       = GroupBut(logger.groups.data[h], "selected")]_vars

\* C33: index_to_group_char and group_char_to_index are inverse on 0..34;
\* a key of the alphabet 1-9, a-z toggles the selected flag of the group
\* whose index is the key's position minus 1 and changes nothing else,
\* nothing at all and without an error when no group has that index; the
\* key 0 toggles the selected flag of all groups.
C33_KeysToggleSelection ==
    /\ [](CharIndexInverse)
    /\ KeyTogglesItsGroup
    /\ KeyZeroTogglesAll

-----------------------------------------------------------------------------
(* Claims about the data as a whole                                        *)

IsPrefix(s, t) == Len(s) <= Len(t) /\ \A i \in 1..Len(s) : s[i] = t[i]

\* C34: the data only grows. In every step the groups stay where they are
\* under their GroupIds and new ones come after them, every group's lines
\* are a prefix of its lines afterwards, the history is a prefix of the
\* history afterwards, and the framebuffer stores at least as many rows as
\* before; by transitivity the same holds between any state and any later
\* state.
C34_DataIsAppendOnly ==
    [][/\ Len(logger.groups.data) <= Len(logger'.groups.data)
       /\ \A g \in 1..Len(logger.groups.data) :
             /\ logger'.groups.data[g].id = logger.groups.data[g].id
             /\ IsPrefix(logger.groups.data[g].lines, logger'.groups.data[g].lines)
       /\ IsPrefix(logger.history, logger'.history)
       /\ Len(logger.frame_buffer.lines) <= Len(logger'.frame_buffer.lines)]_vars

\* A frame has been drawn after the terminal shrank: the framebuffer
\* stores more rows than the frame wrote, and two groups hold three lines
C34_Witness ==
    /\ last.op = "frame"
    /\ frame.resized
    /\ Cardinality(DOMAIN logger.frame_buffer.line_to_group)
           < Len(logger.frame_buffer.lines)
    /\ Len(logger.groups.data) = 2
    /\ Len(logger.history) = 3

\* The lines stored with the LineId n, as <<group, position>> pairs
LinesWithId(l, n) == {gk \in AllLines(l) : TimestampAt(l, gk) = n}

\* C35: the history has as many entries as the LineId counter counts and
\* as the groups hold lines; entry i of the history (from 0) is the GroupId
\* and the status tag of the one line whose LineId is i; and within each
\* group the LineIds increase strictly in storage order.
C35_HistoryMatchesLines ==
    /\ Len(logger.history) = logger.next_line_id
    /\ Len(logger.history) = Cardinality(AllLines(logger))
    /\ \A i \in 1..Len(logger.history) :
          /\ Cardinality(LinesWithId(logger, i - 1)) = 1
          /\ \A gk \in LinesWithId(logger, i - 1) :
                logger.history[i] =
                    <<gk[1] - 1, logger.groups.data[gk[1]].lines[gk[2]].log.status.tag>>
    /\ \A g \in 1..Len(logger.groups.data) :
          \A k \in 1..(Len(logger.groups.data[g].lines) - 1) :
             logger.groups.data[g].lines[k].timestamp
                 < logger.groups.data[g].lines[k + 1].timestamp

\* Three lines of both status tags pushed alternately into two groups, and
\* the last call a push_line that failed
C35_Witness ==
    /\ Len(logger.history) = 3
    /\ Len(logger.groups.data) = 2
    /\ logger.history[1][1] # logger.history[2][1]
    /\ logger.history[3][1] = logger.history[1][1]
    /\ \E i, j \in 1..3 : logger.history[i][2] # logger.history[j][2]
    /\ last.op = "push_line" /\ ~last.res.ok

-----------------------------------------------------------------------------
(* Claims about the view under the time cursor (SpecNav)                   *)

\* C36: while the time cursor is Some(L), a push or a create_group by a
\* producer changes neither the cursor, nor the visible lines of any group,
\* nor the non-empty groups, nor the selected flag, the collapsed override
\* or the scroll offset of any group; a group it creates has no visible
\* line.
C36_HistoricalViewStableUnderLogging ==
    [][(/\ IsSome(logger.groups.next_line)
        /\ last'.op \in {"push_log", "push_line", "create_group"}) =>
          /\ logger'.groups.next_line = logger.groups.next_line
          /\ NonEmpty(logger') = NonEmpty(logger)
          /\ \A g \in 1..Len(logger.groups.data) :
                /\ GroupViewLines(logger', g - 1) = GroupViewLines(logger, g - 1)
                /\ logger'.groups.data[g].selected = logger.groups.data[g].selected
                /\ logger'.groups.data[g].collapsed = logger.groups.data[g].collapsed
                /\ logger'.groups.data[g].scroll = logger.groups.data[g].scroll
          /\ \A g \in (Len(logger.groups.data) + 1)..Len(logger'.groups.data) :
                GroupViewLines(logger', g - 1) = <<>>]_vars

\* With the time cursor in the past, a push has just created a third group,
\* which is hidden, while a group is selected
C36_Witness ==
    /\ IsSome(logger.groups.next_line)
    /\ last.op = "push_log" /\ last.arg = <<NavNames[3]>>
    /\ Len(logger.groups.data) = 3
    /\ Len(logger.groups.data[3].lines) = 1
    /\ Len(NonEmpty(logger)) < 3
    /\ \E g \in 1..3 : logger.groups.data[g].selected

\* The number of non-empty groups that are selected
SelectedCount(l) ==
    Cardinality({k \in 1..Len(NonEmpty(l)) : At(l.groups.data, NonEmpty(l)[k]).selected})

\* C37: when a non-empty group is selected, shift_selection moves every
\* selection one position in the direction of delta within the ordered
\* non-empty groups, around the end, so that as many non-empty groups are
\* selected as before; in every case the selected flag of the groups that
\* are empty under the time cursor stays, and nothing but selected flags
\* changes.
C37_ShiftSelectionKeepsCountAndHidden ==
    [][last'.op = "shift_selection" =>
          LET ne == NonEmpty(logger)
              n == Len(ne)
              d == IF last'.arg >= 0 THEN 1 ELSE -1
          IN /\ SelectedCount(logger) > 0 =>
                   /\ SelectedCount(logger') = SelectedCount(logger)
                   /\ \A k \in 1..n :
                         At(logger'.groups.data, ne[((k - 1 + d) % n) + 1]).selected
                             = At(logger.groups.data, ne[k]).selected
             /\ \A g \in Hidden(logger) :
                   At(logger'.groups.data, g).selected = At(logger.groups.data, g).selected
             /\ Len(logger'.groups.data) = Len(logger.groups.data)
             /\ [logger' EXCEPT !.groups.data =
                    [i \in 1..Len(@) |->
                        [@[i] EXCEPT !.selected = logger.groups.data[i].selected]]]
                    = logger]_vars

\* shift_selection(1) has just moved two selections among three non-empty
\* groups, one of them around the end, while a hidden group stays selected
C37_Witness ==
    /\ last.op = "shift_selection" /\ last.arg = 1
    /\ Len(NonEmpty(logger)) = 3
    /\ SelectedCount(logger) = 2
    /\ At(logger.groups.data, NonEmpty(logger)[1]).selected
    /\ ~last.pre[NonEmpty(logger)[1] + 1]
    /\ \E g \in Hidden(logger) : At(logger.groups.data, g).selected

-----------------------------------------------------------------------------
(* Claims about the framebuffer's index maps (SpecLayout)                  *)

\* The rows (from 0) of a frame's rows that were written for the group
\* with display index g
RowsFor(rows, g) == {r \in 0..(Len(rows) - 1) : rows[r + 1].group = Some(g)}

\* C38: after a frame the index maps of the framebuffer agree with each
\* other and describe that frame only. line_to_group has the rows the frame
\* wrote and nothing else; group_to_lines has the groups the frame showed
\* and nothing else; the rows of group g are exactly first..last of
\* group_to_lines(g), so the ranges of different groups are disjoint;
\* first is the header row; a collapsed group has that row only and no
\* group-line range; an expanded group has header, body and footer, and
\* its group-line range has as many entries as it has body rows (no range
\* when it has none).
C38_IndexMapsDescribeTheFrame ==
    last.op = "frame" =>
        \A rows \in {FrameRows(logger, prev_size, ClockMs(logger))} :
            LET fb == logger.frame_buffer
                shown == 0..(Len(frame.shown) - 1)
            IN /\ DOMAIN fb.line_to_group = 0..(Len(rows) - 1)
               /\ \A r \in DOMAIN fb.line_to_group :
                     /\ fb.line_to_group[r] = rows[r + 1].group
                     /\ LineToGroup(fb, r) = rows[r + 1].group
               /\ DOMAIN fb.group_to_lines = shown
               /\ DOMAIN fb.group_to_group_lines \subseteq shown
               /\ \A g \in shown :
                     LET first == fb.group_to_lines[g][1]
                         last_row == fb.group_to_lines[g][2]
                         body == {r \in RowsFor(rows, g) : IsSome(rows[r + 1].group_line)}
                     IN /\ RowsFor(rows, g) = first..last_row
                        /\ {r \in DOMAIN fb.line_to_group : LineToGroup(fb, r) = Some(g)}
                               = first..last_row
                        /\ IsNone(rows[first + 1].group_line)
                        /\ \A h \in shown \ {g} :
                              (first..last_row)
                                  \cap (fb.group_to_lines[h][1]..fb.group_to_lines[h][2]) = {}
                        /\ IF IsCollapsed(logger, frame.shown[g + 1])
                           THEN /\ last_row = first
                                /\ g \notin DOMAIN fb.group_to_group_lines
                           ELSE /\ Cardinality(body) = last_row - first - 1
                                /\ BodyCount(fb, g) = Cardinality(body)
                                /\ (g \in DOMAIN fb.group_to_group_lines) = (body # {})

\* A frame shows a collapsed group and an expanded one with a body row
\* while the time cursor hides the third group
C38_Witness ==
    /\ last.op = "frame"
    /\ Len(frame.shown) = 2
    /\ Len(logger.groups.data) = 3
    /\ IsSome(logger.groups.next_line)
    /\ IsCollapsed(logger, frame.shown[1])
    /\ ~IsCollapsed(logger, frame.shown[2])
    /\ BodyCount(logger.frame_buffer, 1) > 0

=============================================================================
